---- MODULE Spec2Model ----
(***************************************************************************)
(* Taste-profile store, decay engine and the /taste-interaction,           *)
(* /recommendations and monthly-decay handlers of the auth backend.        *)
(*                                                                         *)
(* Scores are kept in half points (Unit half points make one point), so    *)
(* the fractional genre weights of the route (0.5, 2.5, 1.5) are integers. *)
(* Math.floor(score * 0.95) in IEEE doubles equals the exact              *)
(* floor(score * 19 / 20) for every half-point score up to 1000 points,    *)
(* which covers every score the model reaches.                             *)
(***************************************************************************)
EXTENDS Integers, Sequences, FiniteSets, TLC

\* ---------------------------------------------------------------- bounds
MaxCalls == 3
MaxTime == 3
TicksPerMonth == 2
MaxSeed == 100
MaxScore == 5
MaxTopCalls == 5
MaxSweepCalls == 3
MaxDecayTime == 5
MaxLimit == 3
MaxRaceSetup == 2
MaxNames == 7
MaxPool == 60
MaxOthers == 8
MaxShort == 4
MaxActivations == 2
MaxBillingUse == 1
MaxBillingDays == 2
MaxLicenses == 2
MaxDownloadDays == 2

\* ------------------------------------------------------ program constants
Unit == 2
NaN == -1000
DecayNum == 19
DecayDen == 20
MinInteractions == 5
TopSubGenresLimit == 3
TopGenresLimit == 2

\* ------------------------------------------------------------ input sets
Users == {"u1", "u2"}
NoUser == "anon"
NullTag == "null"
ParentOf(sid) == IF sid = "s2" THEN "g2" ELSE "g1"

ValidKinds == {"play", "like", "favorite", "skip", "repeat", "download", "unfavorite"}
\* keys every object literal inherits from Object.prototype
PrototypeKeys == {"constructor"}
\* kinds the lookup does not find; "" stands for a missing interactionType
UnknownKinds == {"bogus", ""}

\* the genre and sub-genre arrays of a request: none, a genre with its
\* sub-genre, a genre alone, and a null entry after a genre
TagLists ==
  {[genres |-> <<>>, subGenres |-> <<>>],
   [genres |-> <<"g1">>, subGenres |-> <<"s1">>],
   [genres |-> <<"g1", "null">>, subGenres |-> <<"s1">>]}
Fails == {"none", "find", "save"}

VARIABLES db, now, accepted, inserted, resp

\* the taste-interaction calls in flight and __v of the stored profile
VARIABLES calls, version

raceVars == <<calls, version>>

\* the POST /recommend request in progress: its position in the route, its
\* body with the answers the upstream services will give, and the route's
\* spec, resolved ids, rawCandidates, filtered, count of widening retries and
\* selected songs
VARIABLES stage, request, query, resolved, pool, filtered, retries, picked

pipelineVars == <<stage, request, query, resolved, pool, filtered, retries, picked>>

\* what a /recommend request leaves alone
storeVars == <<db, now, accepted, inserted, resp, calls, version>>

\* the score call, the answer of POST /recommend, the users' AI usage, the
\* taxonomy cache, the payments and the downloads
VARIABLES scored, reply, ai, taxonomy, billing, downloads

serviceVars == <<scored, reply, ai, taxonomy, billing, downloads>>

vars == <<db, now, accepted, inserted, resp, raceVars, pipelineVars, serviceVars>>

\* ------------------------------------------------------------------ time
\* (getFullYear * 12 + getMonth) of a timestamp
Month(t) == t \div TicksPerMonth

\* --------------------------------------------------------- score algebra
\* a + b in JavaScript numbers, NaN absorbing
Plus(a, b) == IF a = NaN \/ b = NaN THEN NaN ELSE a + b

\* Math.max(1, x)
MaxOne(x) == IF x = NaN THEN NaN ELSE IF x < Unit THEN Unit ELSE x

\* Math.floor(score * decayFactor), in points
FloorDecay(s) == (s * DecayNum) \div (DecayDen * Unit)

DecayScore_round(s) == MaxOne(Unit * ((s * DecayNum + (DecayDen * Unit) \div 2) \div (DecayDen * Unit)))

\* Math.max(1, Math.floor(score * decayFactor))
DecayScore(s) == MaxOne(Unit * FloorDecay(s))

\* scoreWeights, in half points
ScoreWeights ==
  [play       |-> [genre |-> 1,  subgenre |-> 2],
   like       |-> [genre |-> 5,  subgenre |-> 10],
   favorite   |-> [genre |-> 5,  subgenre |-> 10],
   skip       |-> [genre |-> -2, subgenre |-> -4],
   repeat     |-> [genre |-> 3,  subgenre |-> 6],
   download   |-> [genre |-> 4,  subgenre |-> 8],
   unfavorite |-> [genre |-> -5, subgenre |-> -10]]

\* scoreWeights[interactionType]: an own key gives its weights, an inherited
\* key gives a truthy object whose .genre and .subgenre are undefined (NaN in
\* arithmetic), anything else gives undefined
Lookup(kind) ==
  IF kind \in DOMAIN ScoreWeights
    THEN [found |-> TRUE, genre |-> ScoreWeights[kind].genre,
          subgenre |-> ScoreWeights[kind].subgenre]
    ELSE IF kind \in PrototypeKeys
      THEN [found |-> TRUE, genre |-> NaN, subgenre |-> NaN]
      ELSE [found |-> FALSE, genre |-> NaN, subgenre |-> NaN]

\* ------------------------------------------------------- profile document
NewProfile(u, t) ==
  [userId |-> u, genres |-> <<>>, subGenres |-> <<>>, totalInteractions |-> 0,
   lastDecayDate |-> t, lastUpdated |-> t]

\* index of the first entry with this id, 0 when there is none (Array.find)
FindEntry(list, id) ==
  IF \E i \in 1..Len(list) : list[i].id = id
    THEN CHOOSE i \in 1..Len(list) :
           list[i].id = id /\ \A j \in 1..(i - 1) : list[j].id # id
    ELSE 0

NewEntryScore_raw(points) == points

\* score of a pushed entry
NewEntryScore(points) == MaxOne(points)

UpdateScore(list, entry, points) ==
  LET i == FindEntry(list, entry.id) IN
    IF i # 0
      THEN [list EXCEPT ![i].score = MaxOne(Plus(@, points))]
      ELSE Append(list, [entry EXCEPT !.score = NewEntryScore(points)])

updateGenreScore(doc, genreId, points, t) ==
  [doc EXCEPT !.genres = UpdateScore(@, [id |-> genreId, score |-> 0], points),
              !.lastUpdated = t]

updateSubGenreScore(doc, subGenreId, parentGenreId, points, t) ==
  [doc EXCEPT !.subGenres =
                UpdateScore(@, [id |-> subGenreId, parent |-> parentGenreId, score |-> 0], points),
              !.lastUpdated = t]

DecayList(list) == [i \in 1..Len(list) |-> [list[i] EXCEPT !.score = DecayScore(@)]]

monthsSinceDecay(doc, t) == Month(t) - Month(doc.lastDecayDate)

applyDecay_always(doc, t) ==
  [doc EXCEPT !.genres = DecayList(@), !.subGenres = DecayList(@), !.lastDecayDate = t]

applyDecay(doc, t) ==
  IF monthsSinceDecay(doc, t) >= 1
    THEN [doc EXCEPT !.genres = DecayList(@), !.subGenres = DecayList(@),
                     !.lastDecayDate = t]
    ELSE doc

\* --------------------------------------------------------------- getTop
\* position of e in a list already sorted by descending score: after every
\* element whose score is not smaller (Array.prototype.sort is stable)
RECURSIVE InsertDesc_reverseTies(_, _)
InsertDesc_reverseTies(sorted, e) ==
  IF sorted = <<>> THEN <<e>>
  ELSE IF Head(sorted).score > e.score
    THEN <<Head(sorted)>> \o InsertDesc_reverseTies(Tail(sorted), e)
    ELSE <<e>> \o sorted

RECURSIVE InsertDesc(_, _)
InsertDesc(sorted, e) ==
  IF sorted = <<>> THEN <<e>>
  ELSE IF Head(sorted).score >= e.score
    THEN <<Head(sorted)>> \o InsertDesc(Tail(sorted), e)
    ELSE <<e>> \o sorted

RECURSIVE SortDesc(_)
SortDesc(list) ==
  IF list = <<>> THEN <<>>
  ELSE InsertDesc(SortDesc(SubSeq(list, 1, Len(list) - 1)), list[Len(list)])

Slice(list, limit) == SubSeq(list, 1, IF limit < Len(list) THEN limit ELSE Len(list))

getTop(list, limit) ==
  LET sorted == SortDesc(list) IN [list |-> sorted, top |-> Slice(sorted, limit)]

\* the document after the in-place sort, and the slice returned
getTopGenres(doc, limit) ==
  LET r == getTop(doc.genres, limit) IN [doc |-> [doc EXCEPT !.genres = r.list], top |-> r.top]

getTopSubGenres(doc, limit) ==
  LET r == getTop(doc.subGenres, limit) IN [doc |-> [doc EXCEPT !.subGenres = r.list], top |-> r.top]

\* ----------------------------------------------------------- persistence
\* position in the collection of the user's profile, 0 when there is none
FindOne(d, u) ==
  IF \E i \in 1..Len(d) : d[i].userId = u
    THEN CHOOSE i \in 1..Len(d) : d[i].userId = u /\ \A j \in 1..(i - 1) : d[j].userId # u
    ELSE 0

\* schema validation run by save(): every score casts to a number >= 0
Valid(doc) ==
  /\ \A i \in 1..Len(doc.genres) : doc.genres[i].score # NaN /\ doc.genres[i].score >= 0
  /\ \A i \in 1..Len(doc.subGenres) : doc.subGenres[i].score # NaN /\ doc.subGenres[i].score >= 0

\* save(): insert a new document, or replace the stored one
Save(d, i, doc) == IF i = 0 THEN Append(d, doc) ELSE [d EXCEPT ![i] = doc]

\* -------------------------------------------------- POST /taste-interaction
\* the answer to a request, with the interactionType the request carried
Reply(op, status, body, count) ==
  [op |-> op, kind |-> "", status |-> status, body |-> body, count |-> count,
   topGenres |-> <<>>, topSubGenres |-> <<>>]

TasteReply(req, status, body, count) ==
  [Reply("taste", status, body, count) EXCEPT !.kind = req.kind]

\* a forEach callback reads ._id of a null entry
Throws(tags) == \E i \in 1..Len(tags) : tags[i] = NullTag

RECURSIVE UpdateGenres(_, _, _, _)
UpdateGenres(doc, tags, points, t) ==
  IF tags = <<>> THEN doc
  ELSE UpdateGenres(updateGenreScore(doc, Head(tags), points, t), Tail(tags), points, t)

RECURSIVE UpdateSubGenres(_, _, _, _)
UpdateSubGenres(doc, tags, points, t) ==
  IF tags = <<>> THEN doc
  ELSE UpdateSubGenres(updateSubGenreScore(doc, Head(tags), ParentOf(Head(tags)), points, t),
                       Tail(tags), points, t)

TasteDoc_countTags(p0, w, req, t) ==
  LET p1 == applyDecay(p0, t)
      p2 == UpdateGenres(p1, req.genres, w.genre, t)
      p3 == UpdateSubGenres(p2, req.subGenres, w.subgenre, t)
  IN [p3 EXCEPT !.totalInteractions = @ + Len(req.genres) + Len(req.subGenres)]

\* the document the handler builds in memory: decay, score updates, counter
TasteDoc(p0, w, req, t) ==
  LET p1 == applyDecay(p0, t)
      p2 == UpdateGenres(p1, req.genres, w.genre, t)
      p3 == UpdateSubGenres(p2, req.subGenres, w.subgenre, t)
  IN [p3 EXCEPT !.totalInteractions = @ + 1]

OnTasteError_saveDecayed(d, i, p0, t) == Save(d, i, applyDecay(p0, t))

\* what the catch block leaves in the collection
OnTasteError(d, i, p0, t) == d

TasteHandler(d, t, req, fail) ==
  IF req.user = NoUser THEN [db |-> d, ok |-> FALSE, resp |-> TasteReply(req, 401, "unauth", 0)]
  ELSE IF ~req.songId \/ req.kind = ""
    THEN [db |-> d, ok |-> FALSE, resp |-> TasteReply(req, 400, "required", 0)]
  ELSE LET w == Lookup(req.kind) IN
    IF ~w.found
      THEN [db |-> d, ok |-> FALSE, resp |-> TasteReply(req, 400, "invalidType", 0)]
    ELSE IF fail = "find"
      THEN [db |-> d, ok |-> FALSE, resp |-> TasteReply(req, 500, "error", 0)]
    ELSE LET i == FindOne(d, req.user)
             p0 == IF i = 0 THEN NewProfile(req.user, t) ELSE d[i]
         IN IF Throws(req.genres) \/ Throws(req.subGenres)
              THEN [db |-> OnTasteError(d, i, p0, t), ok |-> FALSE,
                    resp |-> TasteReply(req, 500, "error", 0)]
            ELSE LET p == TasteDoc(p0, w, req, t) IN
              IF fail = "save" \/ ~Valid(p)
                THEN [db |-> OnTasteError(d, i, p0, t), ok |-> FALSE,
                      resp |-> TasteReply(req, 500, "error", 0)]
                ELSE [db |-> Save(d, i, p), ok |-> TRUE,
                      resp |-> TasteReply(req, 200, "tracked", p.totalInteractions)]

\* ---------------------------------------------------- GET /recommendations
hasAnyTaste_always(d, u) == TRUE

\* the guard on the lean profile: it exists and carries a genre or sub-genre entry
hasAnyTaste(d, u) ==
  LET i == FindOne(d, u) IN
    i # 0 /\ (Len(d[i].genres) > 0 \/ Len(d[i].subGenres) > 0)

RecsReply(doc, topGenres, topSubGenres) ==
  [op |-> "recs", kind |-> "", status |-> 200, body |-> "recs",
   count |-> doc.totalInteractions,
   topGenres |-> topGenres, topSubGenres |-> topSubGenres]

RecsBody_readThenDecay(d, i, t) ==
  LET sg == getTopSubGenres(d[i], TopSubGenresLimit)
      g  == getTopGenres(sg.doc, TopGenresLimit)
  IN [db |-> Save(d, i, applyDecay(d[i], t)), resp |-> RecsReply(d[i], g.top, sg.top)]

\* decay, save, then read the top preferences of the decayed document
RecsBody(d, i, t) ==
  LET p  == applyDecay(d[i], t)
      sg == getTopSubGenres(p, TopSubGenresLimit)
      g  == getTopGenres(sg.doc, TopGenresLimit)
  IN [db |-> Save(d, i, p), resp |-> RecsReply(p, g.top, sg.top)]

RecsHandler(d, t, u, fail) ==
  IF u = NoUser THEN [db |-> d, resp |-> Reply("recs", 401, "unauth", 0)]
  ELSE IF fail = "find" THEN [db |-> d, resp |-> Reply("recs", 200, "emptySongs", 0)]
  ELSE IF ~hasAnyTaste(d, u) THEN [db |-> d, resp |-> Reply("recs", 200, "emptySongs", 0)]
  ELSE LET i == FindOne(d, u) IN
    IF i = 0 \/ d[i].totalInteractions < MinInteractions
      THEN [db |-> d,
            resp |-> Reply("recs", 200, "insufficient",
                           IF i = 0 THEN 0 ELSE d[i].totalInteractions)]
    ELSE IF fail = "save" THEN [db |-> d, resp |-> Reply("recs", 200, "emptySongs", 0)]
    ELSE RecsBody(d, i, t)

\* ------------------------------------------------------- runMonthlyDecay
\* the for-of loop from profile i on; the save of profile failAt rejects
RECURSIVE SweepFrom(_, _, _, _)
SweepFrom(d, i, t, failAt) ==
  IF i > Len(d) THEN [db |-> d, success |-> TRUE, updatedCount |-> Len(d)]
  ELSE IF i = failAt THEN [db |-> d, success |-> FALSE, updatedCount |-> 0]
  ELSE SweepFrom([d EXCEPT ![i] = applyDecay(d[i], t)], i + 1, t, failAt)

runMonthlyDecay(d, t, failAt) == SweepFrom(d, 1, t, failAt)

\* ------------------------------------------------------------- the system
NoReply == Reply("none", 0, "none", 0)

NoInserted == [genres |-> <<>>, subGenres |-> <<>>]

\* no /recommend request has arrived; llmExtractSpec returned null
NoRequest == [none |-> TRUE]

NoSpec == [null |-> TRUE]

\* null in a name-valued or id-valued field
Null == "<null>"

\* the id lists of the route before collectCandidates has returned
NoIds ==
  [subGenreIds |-> <<>>, siblingSubIds |-> <<>>, genreId |-> Null, moodIds |-> <<>>,
   instrumentIds |-> <<>>]

\* the two calls of the concurrent scenario
CallIds == {"A", "B"}

NoCall == [pc |-> "start", isNew |-> FALSE, loaded |-> NewProfile(NoUser, 0), ver |-> 0,
           at |-> 0, status |-> 0]

\* nothing scored, answered, used, cached, paid or downloaded yet
NotScored == [none |-> TRUE]

NotAnswered ==
  [status |-> 0, error |-> "", totalCandidates |-> 0, filteredCount |-> 0, results |-> <<>>]

\* one user on the free plan who has not used the recommender, and two
\* requests of that user that have not started
NoUsage ==
  [user |-> [subscription_type |-> "", is_premium |-> FALSE, aiQueries |-> <<>>],
   reqs |-> [r \in {"A", "B"} |-> [pc |-> "start", status |-> 0, used |-> 0, limit |-> 0]]]

TTL_MS == 60000
ClockStepMs == 30000

\* the taxonomy object as the module is loaded (v null is 0), the version the
\* admin service serves, Date.now() in ms and no refresh running
NoCache ==
  [cache |-> [v |-> 0,
              lists |-> [genres |-> <<>>, subGenres |-> <<>>, moods |-> <<>>, instruments |-> <<>>],
              maps |-> [none |-> TRUE],
              lastLoadedAt |-> 0],
   admin |-> 1,
   clock |-> ClockStepMs,
   runs |-> [r \in {"A", "B"} |-> [pc |-> "idle", startedAt |-> 0, isEmpty |-> FALSE,
                                   ver |-> 0, requests |-> 0]]]

\* a free user who never paid, an empty payment_events collection and no
\* activation saved yet; day 0 stands for a date that is not set
NoBilling ==
  [user |-> [subscription_type |-> "", is_premium |-> FALSE, subscription_start |-> 0,
             subscription_end |-> 0, downloads |-> <<>>, aiQueries |-> <<>>],
   events |-> {},
   activations |-> <<>>,
   today |-> 0,
   res |-> [status |-> 0, body |-> ""]]

\* a user without downloads, an empty licenses collection, day 0 before the
\* scenario starts
NoDownloads ==
  [user |-> [subscription_type |-> "", is_premium |-> FALSE, subscription_end |-> 0,
             downloads |-> <<>>],
   licenses |-> <<>>,
   seeded |-> 0,
   today |-> 0,
   res |-> [status |-> 0, error |-> ""]]

Init ==
  /\ db = <<>>
  /\ now = 0
  /\ accepted = [u \in Users |-> 0]
  /\ inserted = [u \in Users |-> NoInserted]
  /\ resp = NoReply
  /\ calls = [c \in CallIds |-> NoCall]
  /\ version = 0
  /\ stage = "idle"
  /\ request = NoRequest
  /\ query = NoSpec
  /\ resolved = NoIds
  /\ pool = <<>>
  /\ filtered = <<>>
  /\ retries = 0
  /\ picked = <<>>
  /\ scored = NotScored
  /\ reply = NotAnswered
  /\ ai = NoUsage
  /\ taxonomy = NoCache
  /\ billing = NoBilling
  /\ downloads = NoDownloads

TotalAccepted == accepted["u1"] + accepted["u2"]

\* every stored score is at most cap points
WithinCap(d, cap) ==
  \A i \in 1..Len(d) :
    /\ \A j \in 1..Len(d[i].genres) : d[i].genres[j].score <= cap * Unit
    /\ \A j \in 1..Len(d[i].subGenres) : d[i].subGenres[j].score <= cap * Unit

\* ids in the order in which an accepted call first named them
RECURSIVE AppendNew(_, _)
AppendNew(seq, tags) ==
  IF tags = <<>> THEN seq
  ELSE AppendNew(IF \E i \in 1..Len(seq) : seq[i] = Head(tags) THEN seq ELSE Append(seq, Head(tags)),
                 Tail(tags))

TasteRequest(u, kind, songId, genres, subGenres) ==
  [user |-> u, kind |-> kind, songId |-> songId, genres |-> genres, subGenres |-> subGenres]

TasteInput(u, kind, songId, genres, subGenres, fail) ==
  [req |-> TasteRequest(u, kind, songId, genres, subGenres), fail |-> fail]

\* requests of one user: every kind the lookup lets through with every tag
\* list, the kinds it rejects, a missing songId, no session, and a failing
\* find or save
TasteInputs ==
  {TasteInput("u1", k, TRUE, tl.genres, tl.subGenres, "none") :
     k \in ValidKinds \cup PrototypeKeys, tl \in TagLists}
  \cup {TasteInput("u1", k, TRUE, <<"g1">>, <<"s1">>, "none") : k \in UnknownKinds}
  \cup {TasteInput("u1", "play", FALSE, <<"g1">>, <<"s1">>, "none"),
        TasteInput(NoUser, "play", TRUE, <<"g1">>, <<"s1">>, "none")}
  \cup {TasteInput("u1", "like", TRUE, <<"g1">>, <<"null">>, "none")}
  \cup {TasteInput("u1", k, TRUE, <<"g1">>, <<"s1">>, f) :
          k \in {"like", "bogus", "constructor"}, f \in {"find", "save"}}

TasteStep(req, fail, maxCalls, cap) ==
  LET r == TasteHandler(db, now, req, fail) IN
    /\ r.ok => TotalAccepted < maxCalls /\ WithinCap(r.db, cap)
    /\ db' = r.db
    /\ resp' = r.resp
    /\ accepted' = IF r.ok THEN [accepted EXCEPT ![req.user] = @ + 1] ELSE accepted
    /\ inserted' = IF r.ok
                     THEN [inserted EXCEPT ![req.user] =
                             [genres |-> AppendNew(@.genres, req.genres),
                              subGenres |-> AppendNew(@.subGenres, req.subGenres)]]
                     ELSE inserted
    /\ UNCHANGED <<now, raceVars, pipelineVars, serviceVars>>

TasteInteraction == \E in \in TasteInputs : TasteStep(in.req, in.fail, MaxCalls, MaxScore)

RecsStep(u, fail) ==
  LET r == RecsHandler(db, now, u, fail) IN
    /\ db' = r.db
    /\ resp' = r.resp
    /\ UNCHANGED <<now, accepted, inserted, raceVars, pipelineVars, serviceVars>>

Recommendations == \E u \in {"u1", NoUser}, fail \in Fails : RecsStep(u, fail)

SweepStep(failAt) ==
  LET r == runMonthlyDecay(db, now, failAt) IN
    /\ db' = r.db
    /\ resp' = Reply("sweep", 0, IF r.success THEN "sweepOk" ELSE "sweepFail", r.updatedCount)
    /\ UNCHANGED <<now, accepted, inserted, raceVars, pipelineVars, serviceVars>>

MonthlyDecay == \E failAt \in 0..Len(db) : SweepStep(failAt)

TickTo(maxTime) ==
  /\ now < maxTime
  /\ now' = now + 1
  /\ UNCHANGED <<db, accepted, inserted, resp, raceVars, pipelineVars, serviceVars>>

Tick == TickTo(MaxTime)

Next == TasteInteraction \/ Recommendations \/ MonthlyDecay \/ Tick

Spec == Init /\ [][Next]_vars

\* --------------------------------------------- two genres, two sub-genres
\* one user whose calls name two genres and two sub-genres in either order
TopInputs ==
  {TasteInput("u1", k, TRUE, g, s, "none") :
     k \in {"play", "skip"},
     g \in {<<"g1">>, <<"g2">>},
     s \in {<<>>, <<"s2", "s1">>}}

TopTaste == \E in \in TopInputs : TasteStep(in.req, in.fail, MaxTopCalls, MaxScore)

TopRecommendations == \E fail \in {"none", "save"} : RecsStep("u1", fail)

NextTop == TopTaste \/ TopRecommendations \/ Tick

SpecTop == Init /\ [][NextTop]_vars

\* ------------------------------------------------------- several profiles
SweepInputs == {TasteInput(u, "like", TRUE, <<"g1">>, <<"s1">>, "none") : u \in Users}

SweepTaste == \E in \in SweepInputs : TasteStep(in.req, in.fail, MaxSweepCalls, MaxScore)

NextSweep == SweepTaste \/ MonthlyDecay \/ Tick

SpecSweep == Init /\ [][NextSweep]_vars

\* ------------------------------------------------------------ long decay
\* a burst of play calls in the first tick, then months that pass
DecayPlay ==
  /\ now = 0
  /\ TasteStep(TasteRequest("u1", "play", TRUE, <<"g1">>, <<"s1">>), "none", MaxSeed, MaxSeed)

DecayTick == TickTo(MaxDecayTime)

DecayRecommendations == RecsStep("u1", "none")

NextDecay == DecayPlay \/ DecayTick \/ MonthlyDecay \/ DecayRecommendations

SpecDecay == Init /\ [][NextDecay]_vars

\* -------------------------------------- concurrent taste-interaction calls
\* What save() sends for a document that findOne loaded: $set of the changed
\* scalar paths and, for each array, $set of the changed elements by position
\* (guarded by __v), $push of the appended elements (increments __v; older
\* releases of the library also guard it by __v: strict), or $set of the whole
\* array when it has both (guarded by and incrementing __v).
\* A new document is inserted; the unique index on userId rejects the second.
ModifiedAt(old, new) == {j \in 1..Len(old) : new[j].score # old[j].score}

Pushed(old, new) == SubSeq(new, Len(old) + 1, Len(new))

ArrayOp(old, new) ==
  IF ModifiedAt(old, new) = {}
    THEN (IF Pushed(old, new) = <<>> THEN "none" ELSE "push")
    ELSE (IF Pushed(old, new) = <<>> THEN "set" ELSE "all")

NeedsWhere(op, strict) == op \in {"set", "all"} \/ (strict /\ op = "push")

BumpsVersion(op) == op \in {"push", "all"}

ApplyArrayOp(cur, old, new) ==
  LET op == ArrayOp(old, new) IN
    IF op = "none" THEN cur
    ELSE IF op = "push" THEN cur \o Pushed(old, new)
    ELSE IF op = "all" THEN new
    ELSE [j \in 1..Len(cur) |->
            IF j \in ModifiedAt(old, new) THEN [cur[j] EXCEPT !.score = new[j].score]
            ELSE cur[j]]

\* the stored document after the update of a loaded document went through
ApplyDelta(cur, old, new) ==
  [cur EXCEPT !.genres = ApplyArrayOp(@, old.genres, new.genres),
              !.subGenres = ApplyArrayOp(@, old.subGenres, new.subGenres),
              !.totalInteractions =
                 IF new.totalInteractions # old.totalInteractions
                   THEN new.totalInteractions ELSE @,
              !.lastUpdated = IF new.lastUpdated # old.lastUpdated THEN new.lastUpdated ELSE @,
              !.lastDecayDate =
                 IF new.lastDecayDate # old.lastDecayDate THEN new.lastDecayDate ELSE @]

InsertDoc_noUnique(d, doc) == [db |-> Append(d, doc), ok |-> TRUE]

\* insert of a new document under the unique index on userId
InsertDoc(d, doc) ==
  IF FindOne(d, doc.userId) # 0 THEN [db |-> d, ok |-> FALSE]
  ELSE [db |-> Append(d, doc), ok |-> TRUE]

\* save() of call state c whose handler built document p; v is the stored __v
SaveCall(d, v, c, p, strict) ==
  IF ~Valid(p) THEN [db |-> d, version |-> v, ok |-> FALSE]
  ELSE IF c.isNew
    THEN LET r == InsertDoc(d, p) IN [db |-> r.db, version |-> v, ok |-> r.ok]
  ELSE LET i  == FindOne(d, p.userId)
           g  == ArrayOp(c.loaded.genres, p.genres)
           sg == ArrayOp(c.loaded.subGenres, p.subGenres)
       IN IF (NeedsWhere(g, strict) \/ NeedsWhere(sg, strict)) /\ v # c.ver
            THEN [db |-> d, version |-> v, ok |-> FALSE]
          ELSE [db |-> [d EXCEPT ![i] = ApplyDelta(@, c.loaded, p)],
                version |-> IF BumpsVersion(g) \/ BumpsVersion(sg) THEN v + 1 ELSE v,
                ok |-> TRUE]

\* the requests of the two calls: one user, disjoint tags
RaceRequest(c) ==
  IF c = "A" THEN TasteRequest("u1", "like", TRUE, <<"g1">>, <<"s1">>)
  ELSE TasteRequest("u1", "play", TRUE, <<"g2">>, <<"s2">>)

\* calls made one after the other before the two concurrent ones
RaceSetupInputs ==
  {TasteInput("u1", "like", TRUE, g, sg, "none") :
     g \in {<<"g1">>, <<"g2">>}, sg \in {<<>>, <<"s2">>}}

RaceSetup ==
  /\ \A c \in CallIds : calls[c].pc = "start"
  /\ \E in \in RaceSetupInputs : TasteStep(in.req, in.fail, MaxRaceSetup, MaxScore)

\* await findOne: the call resumes with the stored document, or a new one
RaceLoad(c) ==
  /\ calls[c].pc = "start"
  /\ LET i == FindOne(db, RaceRequest(c).user) IN
       calls' = [calls EXCEPT ![c] =
                   [pc |-> "loaded", isNew |-> (i = 0),
                    loaded |-> IF i = 0 THEN NewProfile(RaceRequest(c).user, now) ELSE db[i],
                    ver |-> version, at |-> now, status |-> 0]]
  /\ UNCHANGED <<db, now, accepted, inserted, resp, version, pipelineVars, serviceVars>>

\* decay, updates and counter on the loaded document, then await save
RaceSave(c, strict) ==
  /\ calls[c].pc = "loaded"
  /\ LET req == RaceRequest(c)
         p == TasteDoc(calls[c].loaded, Lookup(req.kind), req, calls[c].at)
         r == SaveCall(db, version, calls[c], p, strict)
     IN /\ db' = r.db
        /\ version' = r.version
        /\ calls' = [calls EXCEPT ![c].pc = "done",
                                  ![c].status = IF r.ok THEN 200 ELSE 500]
        /\ resp' = IF r.ok THEN TasteReply(req, 200, "tracked", p.totalInteractions)
                   ELSE TasteReply(req, 500, "error", 0)
        /\ accepted' = IF r.ok THEN [accepted EXCEPT ![req.user] = @ + 1] ELSE accepted
        /\ inserted' = IF r.ok
                         THEN [inserted EXCEPT ![req.user] =
                                 [genres |-> AppendNew(@.genres, req.genres),
                                  subGenres |-> AppendNew(@.subGenres, req.subGenres)]]
                         ELSE inserted
        /\ UNCHANGED <<now, pipelineVars, serviceVars>>

RaceLoadAny == \E c \in CallIds : RaceLoad(c)

RaceSaveAny == \E c \in CallIds, strict \in BOOLEAN : RaceSave(c, strict)

NextRace == RaceSetup \/ RaceLoadAny \/ RaceSaveAny \/ Tick

SpecRace == Init /\ [][NextRace]_vars

\* ========================================================= POST /recommend
\* Names and briefs are strings; a brief is written in lower case, so the
\* case-insensitive tests of the route are substring tests. BPM values are
\* integers: the route only compares, adds and subtracts them.
\* ---------------------------------------------------------------- strings
Contains(text, part) ==
  \E i \in 1..(Len(text) - Len(part) + 1) : SubSeq(text, i, i + Len(part) - 1) = part

\* /a|b|c/i.test(text)
Test(words, text) == \E word \in words : Contains(text, word)

\* toLowerCase() of the names the taxonomy holds
Lower(name) ==
  CASE name = "Ambient" -> "ambient"
    [] name = "Documentary" -> "documentary"
    [] name = "Rock" -> "rock"
    [] name = "Meditation" -> "meditation"
    [] name = "Drone" -> "drone"
    [] name = "Nature" -> "nature"
    [] name = "Hard Rock" -> "hard rock"
    [] name = "Calm" -> "calm"
    [] name = "Happy" -> "happy"
    [] name = "Piano" -> "piano"
    [] name = "Guitar" -> "guitar"
    [] OTHER -> name

\* Math.min and Math.max of two numbers
Smaller(a, b) == IF a <= b THEN a ELSE b

Larger(a, b) == IF a >= b THEN a ELSE b

Prefix(text, n) == SubSeq(text, 1, IF n < Len(text) THEN n ELSE Len(text))

\* --------------------------------------------------------------- taxonomy
\* the cache while the request runs
Taxonomy ==
  [genres |-> <<[id |-> "G1", name |-> "Ambient"],
                [id |-> "G2", name |-> "Documentary"],
                [id |-> "G3", name |-> "Rock"]>>,
   subGenres |-> <<[id |-> "S1", name |-> "Meditation", genre |-> "G1"],
                   [id |-> "S2", name |-> "Drone", genre |-> "G1"],
                   [id |-> "S3", name |-> "Nature", genre |-> "G2"],
                   [id |-> "S4", name |-> "Hard Rock", genre |-> "G3"]>>,
   moods |-> <<[id |-> "M1", name |-> "Calm"], [id |-> "M2", name |-> "Happy"]>>,
   instruments |-> <<[id |-> "I1", name |-> "Piano"], [id |-> "I2", name |-> "Guitar"]>>]

Names(list) == [i \in 1..Len(list) |-> list[i].name]

Range(list) == {list[i] : i \in 1..Len(list)}

\* ------------------------------------------------- values of a JSON answer
\* a scalar: a finite number, a string holding a number, null, or anything else
JNumber(n) == [type |-> "number", val |-> n]

JNumString(n) == [type |-> "numstring", val |-> n]

JNull == [type |-> "null", val |-> 0]

JOther == [type |-> "other", val |-> 0]

\* an array of items, or a value that is not an array
JArray(items) == [isArray |-> TRUE, items |-> items]

JNotArray == [isArray |-> FALSE, items |-> <<>>]

\* a value that is not a string, which no taxonomy name equals
NotAString == "<not a string>"

\* null in a number-valued field
NoNum == -1000000

NoTempo == [null |-> TRUE]

NoKeyPref == [null |-> TRUE]

ListCap == 5
IntentCap == 400
PriorityCap == 6
DefaultSteps == <<5, 10, 20>>
DefaultPriority == <<"subGenre", "mood", "genre", "tempo", "instruments", "key">>

\* --------------------------------------------------------- llmExtractSpec
\* Number.isFinite(x) ? Number(x) : null
FiniteOrNull(j) == IF j.type = "number" THEN j.val ELSE NoNum

\* Number(x): NaN for what is neither a number, a numeric string nor null
ToNumber(j) == IF j.type \in {"number", "numstring", "null"} THEN j.val ELSE NaN

IsFiniteNumber(n) == n # NaN

RECURSIVE Filter(_, _)
\* the items of a list that are in a set, in order
Filter(list, allowed) ==
  IF list = <<>> THEN <<>>
  ELSE IF Head(list) \in allowed THEN <<Head(list)>> \o Filter(Tail(list), allowed)
  ELSE Filter(Tail(list), allowed)

\* .slice(0, 5)
CapList(list) == Slice(list, ListCap)

AllowedOnly_unchecked(j, allowed) == IF j.isArray THEN CapList(j.items) ELSE <<>>

\* Array.isArray(x) ? x.filter(s => allowed.includes(s)).slice(0, 5) : []
AllowedOnly(j, allowed) ==
  IF j.isArray THEN CapList(Filter(j.items, Range(allowed))) ELSE <<>>

\* allowed.genres.includes(parsed.genre) ? parsed.genre : null
AllowedGenre(name, allowed) == IF name \in Range(allowed) THEN name ELSE Null

ExpandSteps(j) ==
  IF j.isArray /\ Len(j.items) > 0
    THEN LET numbers == [i \in 1..Len(j.items) |-> ToNumber(j.items[i])]
         IN Filter(numbers, {n \in Range(numbers) : IsFiniteNumber(n)})
    ELSE DefaultSteps

\* the target moved into the bounds that are present
ClampTarget(tgt, outMin, outMax) ==
  LET low == IF tgt # NoNum /\ outMin # NoNum /\ tgt < outMin THEN outMin ELSE tgt
  IN IF low # NoNum /\ outMax # NoNum /\ low > outMax THEN outMax ELSE low

SwapBounds_drop(lo, hi) == IF lo # NoNum /\ hi # NoNum /\ lo > hi THEN <<NoNum, NoNum>> ELSE <<lo, hi>>

\* min and max, exchanged when both are present and inverted
SwapBounds(lo, hi) == IF lo # NoNum /\ hi # NoNum /\ lo > hi THEN <<hi, lo>> ELSE <<lo, hi>>

\* the tempo of the QuerySpec from parsed.tempo
NormalizeTempo(tempo) ==
  LET bounds == SwapBounds(FiniteOrNull(tempo.min), FiniteOrNull(tempo.max))
  IN [targetBpm |-> ClampTarget(FiniteOrNull(tempo.targetBpm), bounds[1], bounds[2]),
      min |-> bounds[1],
      max |-> bounds[2],
      expandSteps |-> ExpandSteps(tempo.expandSteps)]

NormalizeKey(key) ==
  [mode |-> IF key.mode \in {"major", "minor"} THEN key.mode ELSE Null,
   preferred |-> IF key.preferred.isArray THEN CapList(key.preferred.items) ELSE <<>>]

\* the sanity checks and normalisation of a parsed answer
SanitizeParsed(tax, text, parsed) ==
  [intent |-> Prefix(IF parsed.intent # "" THEN parsed.intent ELSE text, IntentCap),
   genre |-> AllowedGenre(parsed.genre, Names(tax.genres)),
   subGenres |-> AllowedOnly(parsed.subGenres, Names(tax.subGenres)),
   moods |-> AllowedOnly(parsed.moods, Names(tax.moods)),
   instruments |-> AllowedOnly(parsed.instruments, Names(tax.instruments)),
   tempo |-> NormalizeTempo(parsed.tempo),
   key |-> NormalizeKey(parsed.key),
   vocals |-> IF parsed.vocals \in {"on", "off", "any"} THEN parsed.vocals ELSE Null,
   priority |-> IF parsed.priority.isArray THEN Slice(parsed.priority.items, PriorityCap)
                ELSE DefaultPriority]

\* what the completion call did: the SDK is missing, there is no API key, the
\* call rejected, the content is not JSON, the content is the JSON null, or
\* the content parsed to a value whose properties are read
LlmFailures == {"sdkMissing", "noKey", "rejected", "notJson", "jsonNull"}

llmExtractSpec(tax, text, llm) ==
  IF llm.kind \in {"sdkMissing", "noKey"} THEN NoSpec
  ELSE IF llm.kind \in {"rejected", "notJson", "jsonNull"} THEN NoSpec
  ELSE SanitizeParsed(tax, text, llm.parsed)

\* ----------------------------------------------------- deriveHeuristicSpec
HeuristicCap == 3
FastBand == [targetBpm |-> 135, min |-> 120, max |-> 160, expandSteps |-> DefaultSteps]
CalmBand == [targetBpm |-> 75, min |-> 60, max |-> 90, expandSteps |-> DefaultSteps]
CorporateBand == [targetBpm |-> 105, min |-> 90, max |-> 120, expandSteps |-> DefaultSteps]

NoVocalsWords == {"no vocals", "instrumental", "without vocals"}
VocalsWords == {"with vocals", "singer", "vocal"}
FastWords == {"fast", "energetic", "gym", "sports", "action", "dance", "high energy"}
CalmWords == {"calm", "chill", "study", "focus", "soft", "slow", "ambient", "lofi"}
CorporateWords ==
  {"corporate", "tech", "product", "vlog", "travel", "tutorial", "explainer", "learning"}

\* the four assignments to vocals, each overriding the one before
HeuristicVocals(text, vocalsFlag) ==
  LET v1 == IF vocalsFlag = "on" THEN "on" ELSE Null
      v2 == IF vocalsFlag = "off" THEN "off" ELSE v1
      v3 == IF Test(NoVocalsWords, text) THEN "off" ELSE v2
  IN IF Test(VocalsWords, text) THEN "on" ELSE v3

RECURSIVE Hits(_, _)
\* the taxonomy entries whose lower-cased name the text contains
Hits(list, text) ==
  IF list = <<>> THEN <<>>
  ELSE IF Head(list).name # "" /\ Contains(text, Lower(Head(list).name))
    THEN <<Head(list)>> \o Hits(Tail(list), text)
  ELSE Hits(Tail(list), text)

\* genreById.get(id).name, null when the id is unknown
GenreNameById(tax, id) ==
  IF \E i \in 1..Len(tax.genres) : tax.genres[i].id = id
    THEN (CHOOSE entry \in Range(tax.genres) : entry.id = id).name
    ELSE Null

HeuristicGenre(tax, text, subHits) ==
  IF subHits = <<>>
    THEN LET genreHits == Hits(tax.genres, text)
         IN IF genreHits = <<>> THEN Null ELSE genreHits[1].name
    ELSE GenreNameById(tax, subHits[1].genre)

HeuristicTempo(text) ==
  IF Test(FastWords, text) THEN FastBand
  ELSE IF Test(CalmWords, text) THEN CalmBand
  ELSE IF Test(CorporateWords, text) THEN CorporateBand
  ELSE NoTempo

HeuristicKey(text) ==
  IF Contains(text, "minor") THEN [mode |-> "minor", preferred |-> <<>>]
  ELSE IF Contains(text, "major") THEN [mode |-> "major", preferred |-> <<>>]
  ELSE NoKeyPref

deriveHeuristicSpec(tax, text, vocalsFlag) ==
  LET subHits == Hits(tax.subGenres, text) IN
    [intent |-> text,
     genre |-> HeuristicGenre(tax, text, subHits),
     subGenres |-> Names(Slice(subHits, HeuristicCap)),
     moods |-> Names(Slice(Hits(tax.moods, text), HeuristicCap)),
     instruments |-> Names(Slice(Hits(tax.instruments, text), HeuristicCap)),
     tempo |-> HeuristicTempo(text),
     key |-> HeuristicKey(text),
     vocals |-> HeuristicVocals(text, vocalsFlag),
     priority |-> DefaultPriority]

\* --------------------------------------------------------- applyAliasHints
NatureWords ==
  {"nature", "wildlife", "forest", "outdoors", "natural", "mountain", "jungle", "park",
   "birdsong", "rainforest"}

RECURSIVE Dedupe(_)
\* Array.from(new Set(list)): first occurrences, in order
Dedupe(list) ==
  IF list = <<>> THEN <<>>
  ELSE LET front == Dedupe(SubSeq(list, 1, Len(list) - 1))
       IN IF list[Len(list)] \in Range(front) THEN front ELSE Append(front, list[Len(list)])

applyAliasHints(tax, qs, text) ==
  LET natureSG == {entry \in Range(tax.subGenres) : Lower(entry.name) = "nature"}
      documentary == {entry \in Range(tax.genres) : Lower(entry.name) = "documentary"}
  IN IF Test(NatureWords, text) /\ natureSG # {}
       THEN [qs EXCEPT
               !.subGenres = Dedupe(Append(@, (CHOOSE entry \in natureSG : TRUE).name)),
               !.genre = IF @ = Null /\ documentary # {}
                           THEN (CHOOSE entry \in documentary : TRUE).name ELSE @]
       ELSE qs

\* ------------------------------------------------------- the understand step
\* vocals === 'on' ? 'on' : (vocals === 'off' ? 'off' : null)
VocalsFlag(toggle) == IF toggle \in {"on", "off"} THEN toggle ELSE Null

\* LLM first, heuristics when it returned null, alias hints, then the toggle
Understand(tax, body, llm) ==
  LET extracted == llmExtractSpec(tax, body.queryText, llm)
      chosen == IF extracted = NoSpec
                  THEN deriveHeuristicSpec(tax, body.queryText, VocalsFlag(body.vocals))
                  ELSE extracted
      hinted == applyAliasHints(tax, chosen, body.queryText)
  IN [hinted EXCEPT !.vocals = IF body.vocals \in {"on", "off"} THEN body.vocals ELSE @]

\* ------------------------------------------------------- collectCandidates
TrendingBelow == 40
DirectLimit == 300

\* a song as the admin backend or the songs collection returns it; from names
\* the answer that carried this object
Song(id, from, hasVocals, bpm, key, subGenres) ==
  [id |-> id, from |-> from, hasVocals |-> hasVocals, bpm |-> bpm, key |-> key,
   subGenres |-> subGenres]

\* a request to a service: it failed, or it answered with a list
Failed == [ok |-> FALSE, songs |-> <<>>]

Answered(songs) == [ok |-> TRUE, songs |-> songs]

\* xByName.get(norm(name)): the id of the last entry with that name, or null
IdByName(list, name) ==
  LET found == {i \in 1..Len(list) : Lower(list[i].name) = Lower(name)}
  IN IF found = {} THEN Null
     ELSE list[CHOOSE i \in found : \A j \in found : j <= i].id

RECURSIVE ResolveIds(_, _)
\* names.map(byName.get).filter(Boolean).map(id)
ResolveIds(list, names) ==
  IF names = <<>> THEN <<>>
  ELSE LET id == IdByName(list, Head(names))
       IN IF id = Null THEN ResolveIds(list, Tail(names))
          ELSE <<id>> \o ResolveIds(list, Tail(names))

\* parentBySubId.get(id)
ParentBySubId(tax, id) ==
  IF \E entry \in Range(tax.subGenres) : entry.id = id
    THEN (CHOOSE entry \in Range(tax.subGenres) : entry.id = id).genre
    ELSE Null

RECURSIVE SiblingsOf(_, _, _)
\* the sub-genres of the parent that are not among the resolved ones
SiblingsOf(entries, parentId, subGenreIds) ==
  IF entries = <<>> THEN <<>>
  ELSE IF Head(entries).genre = parentId /\ Head(entries).id \notin Range(subGenreIds)
    THEN <<Head(entries).id>> \o SiblingsOf(Tail(entries), parentId, subGenreIds)
  ELSE SiblingsOf(Tail(entries), parentId, subGenreIds)

SiblingSubIds(tax, subGenreIds) ==
  IF subGenreIds = <<>> THEN <<>>
  ELSE LET parentId == ParentBySubId(tax, subGenreIds[1])
       IN IF parentId = Null THEN <<>> ELSE SiblingsOf(tax.subGenres, parentId, subGenreIds)

ResolveAll(tax, qs) ==
  LET subGenreIds == ResolveIds(tax.subGenres, qs.subGenres) IN
    [subGenreIds |-> subGenreIds,
     siblingSubIds |-> SiblingSubIds(tax, subGenreIds),
     genreId |-> IF qs.genre = Null THEN Null ELSE IdByName(tax.genres, qs.genre),
     moodIds |-> ResolveIds(tax.moods, qs.moods),
     instrumentIds |-> ResolveIds(tax.instruments, qs.instruments)]

FacetNames == {"subGenre", "sibling", "genre", "mood", "instrument"}

\* the requests pushed onto promises, in order
IssuedCalls(ids) ==
  (IF ids.subGenreIds # <<>> THEN <<"subGenre">> ELSE <<>>)
  \o (IF ids.siblingSubIds # <<>> THEN <<"sibling">> ELSE <<>>)
  \o (IF ids.genreId # Null THEN <<"genre">> ELSE <<>>)
  \o (IF ids.moodIds # <<>> THEN <<"mood">> ELSE <<>>)
  \o (IF ids.instrumentIds # <<>> THEN <<"instrument">> ELSE <<>>)

SetEntry_append(unique, song) == Append(unique, song)

\* unique.set(id, song): a Map keeps the place of the first insertion of a key
\* and the value of the last
SetEntry(unique, song) ==
  IF \E i \in 1..Len(unique) : unique[i].id = song.id
    THEN [i \in 1..Len(unique) |-> IF unique[i].id = song.id THEN song ELSE unique[i]]
    ELSE Append(unique, song)

RECURSIVE AddAll(_, _)
\* add(arr); the test on Len(unique) never holds, it has the map built so far
\* evaluated before the next song is added
AddAll(unique, arr) ==
  IF arr = <<>> \/ Len(unique) < 0 THEN unique
  ELSE AddAll(SetEntry(unique, Head(arr)), Tail(arr))

RECURSIVE MergeCalls(_, _, _)
\* resultsArrays.forEach(arr => add(arr))
MergeCalls(unique, issued, facets) ==
  IF issued = <<>> THEN unique
  ELSE MergeCalls(AddAll(unique, facets[Head(issued)].songs), Tail(issued), facets)

\* getTrending catches its own failure
getTrending(upstream) == IF upstream.trending.ok THEN upstream.trending.songs ELSE <<>>

\* Promise.all rejects as soon as one of the issued requests rejects
collectCandidates(tax, qs, upstream) ==
  LET ids == ResolveAll(tax, qs)
      issued == IssuedCalls(ids)
  IN IF \E i \in 1..Len(issued) : ~upstream.facets[issued[i]].ok
       THEN [threw |-> TRUE, out |-> <<>>, ids |-> ids]
     ELSE LET merged == MergeCalls(<<>>, issued, upstream.facets)
          IN [threw |-> FALSE,
              out |-> IF Len(merged) < TrendingBelow
                        THEN AddAll(merged, getTrending(upstream)) ELSE merged,
              ids |-> ids]

\* --------------------------------------------------------- fetchSongsDirect
\* the filter of the query on the songs collection
MatchesDirect(song, qs) ==
  /\ qs.vocals = "off" => song.hasVocals = "false"
  /\ qs.vocals = "on" => song.hasVocals = "true"
  /\ (qs.tempo # NoTempo /\ (qs.tempo.min # NoNum \/ qs.tempo.max # NoNum))
     => /\ song.bpm # NoNum
        /\ qs.tempo.min # NoNum => song.bpm >= qs.tempo.min
        /\ qs.tempo.max # NoNum => song.bpm <= qs.tempo.max
  /\ (qs.key # NoKeyPref /\ qs.key.mode # Null) => Contains(song.key, qs.key.mode)

RECURSIVE SelectDirect(_, _)
SelectDirect(songs, qs) ==
  IF songs = <<>> THEN <<>>
  ELSE IF MatchesDirect(Head(songs), qs) THEN <<Head(songs)>> \o SelectDirect(Tail(songs), qs)
  ELSE SelectDirect(Tail(songs), qs)

\* the collection is listed in the order of the query's sort; a failing query
\* is caught and gives []
fetchSongsDirect(qs, upstream) ==
  IF upstream.local.ok THEN Slice(SelectDirect(upstream.local.songs, qs), DirectLimit)
  ELSE <<>>

\* -------------------------------------------------------- the collect step
CollectOutcome_noFallback(tax, qs, upstream) ==
  LET r == collectCandidates(tax, qs, upstream)
  IN [ids |-> IF r.threw THEN NoIds ELSE r.ids,
      direct |-> FALSE,
      pool |-> IF r.threw THEN <<>> ELSE r.out]

\* try collectCandidates, catch into an empty list, then the direct fallback
CollectOutcome(tax, qs, upstream) ==
  LET r == collectCandidates(tax, qs, upstream)
      raw == IF r.threw THEN <<>> ELSE r.out
  IN [ids |-> IF r.threw THEN NoIds ELSE r.ids,
      direct |-> raw = <<>>,
      pool |-> IF raw = <<>> THEN fetchSongsDirect(qs, upstream) ELSE raw]

\* --------------------------------------------------- filterByVocalsAndTempo
KeepsVocals_offOnly(song, qs) == ~(qs.vocals = "off" /\ song.hasVocals = "true")

\* the two vocals tests of the loop body
KeepsVocals(song, qs) ==
  /\ ~(qs.vocals = "off" /\ song.hasVocals = "true")
  /\ ~(qs.vocals = "on" /\ song.hasVocals = "false")

\* the two tempo tests: typeof min, max and bpm must be 'number'
KeepsTempo(song, qs) ==
  /\ ~(qs.tempo # NoTempo /\ qs.tempo.min # NoNum /\ song.bpm # NoNum
       /\ song.bpm < qs.tempo.min)
  /\ ~(qs.tempo # NoTempo /\ qs.tempo.max # NoNum /\ song.bpm # NoNum
       /\ song.bpm > qs.tempo.max)

\* for (const s of arr) { ...continue; out.push(s); }
FilterSongs(arr, qs) == SelectSeq(arr, LAMBDA song : KeepsVocals(song, qs) /\ KeepsTempo(song, qs))

\* the array passed in as the call leaves it, and the array returned
filterByVocalsAndTempo(arr, qs) == [arr |-> arr, out |-> FilterSongs(arr, qs)]

\* widenTempo on a JSON copy of spec
widenTempo(qs, delta) ==
  IF qs.tempo = NoTempo THEN qs
  ELSE [qs EXCEPT !.tempo.min = IF @ # NoNum THEN @ - delta ELSE @,
                  !.tempo.max = IF @ # NoNum THEN @ + delta ELSE @]

\* ------------------------------------------------------ the widening loop
DensityFactor == 4
DensityFloor == 40
DefaultTopK == 10
MaxTopK == 20

\* Math.max(1, Math.min(Number(topK) || 10, 20)); 0 stands for a topK that is
\* missing or not a number
Limit(topK) == Larger(1, Smaller(IF topK = 0 THEN DefaultTopK ELSE topK, MaxTopK))

desiredMinCandidates(limit) == Larger(limit * DensityFactor, DensityFloor)

StepsOf(qs) ==
  IF qs.tempo # NoTempo /\ Len(qs.tempo.expandSteps) > 0 THEN qs.tempo.expandSteps
  ELSE DefaultSteps

LoopGoesOn_ignoresDensity(done, steps, count, desired) == done < Len(steps)

\* the for-of loop has a step left and its break does not fire
LoopGoesOn(done, steps, count, desired) == done < Len(steps) /\ ~(count >= desired)

\* let filtered = filterByVocalsAndTempo(rawCandidates, spec)
FilterStep ==
  /\ stage \in {"collected", "collectedDirect"}
  /\ LET r == filterByVocalsAndTempo(pool, query) IN
       /\ pool' = r.arr
       /\ filtered' = r.out
  /\ retries' = 0
  /\ stage' = "filtering"
  /\ UNCHANGED <<storeVars, serviceVars, request, query, resolved, picked>>

\* one pass of the loop body
WidenStep ==
  /\ stage = "filtering"
  /\ LoopGoesOn(retries, StepsOf(query), Len(filtered),
                desiredMinCandidates(Limit(request.body.topK)))
  /\ LET r == filterByVocalsAndTempo(pool, widenTempo(query, StepsOf(query)[retries + 1])) IN
       /\ pool' = r.arr
       /\ filtered' = r.out
  /\ retries' = retries + 1
  /\ UNCHANGED <<storeVars, serviceVars, stage, request, query, resolved, picked>>

\* the loop is left
WidenDone ==
  /\ stage = "filtering"
  /\ ~LoopGoesOn(retries, StepsOf(query), Len(filtered),
                 desiredMinCandidates(Limit(request.body.topK)))
  /\ stage' = "filtered"
  /\ UNCHANGED <<storeVars, serviceVars, request, query, resolved, pool, filtered, retries, picked>>

\* ----------------------------------------------------- pickTopWithDiversity
\* (s.subGenres || []).map(...)[0], or 'none'
GroupKey(song) == IF song.subGenres = <<>> THEN "none" ELSE song.subGenres[1]

\* perSubCount.get(key) || 0: the picked songs of the group so far
CountOf(songs, key) == Cardinality({i \in 1..Len(songs) : GroupKey(songs[i]) = key})

UnderCap_offByOne(cnt, maxPerSub) == ~(cnt > maxPerSub)

\* if (cnt >= maxPerSub) continue
UnderCap(cnt, maxPerSub) == ~(cnt >= maxPerSub)

RECURSIVE PickFrom(_, _, _, _)
\* the for-of loop over sorted, from the songs not yet looked at
PickFrom(rest, chosen, maxPerSub, topK) ==
  IF rest = <<>> \/ Len(chosen) >= topK THEN chosen
  ELSE IF UnderCap(CountOf(chosen, GroupKey(Head(rest))), maxPerSub)
    THEN PickFrom(Tail(rest), Append(chosen, Head(rest)), maxPerSub, topK)
  ELSE PickFrom(Tail(rest), chosen, maxPerSub, topK)

pickTopWithDiversity(sorted, maxPerSub, topK) == PickFrom(sorted, <<>>, maxPerSub, topK)

\* the cap the route passes
RouteMaxPerSub == 4

\* a call of pickTopWithDiversity on a sorted pool
PickArrives(incoming) ==
  /\ stage = "idle"
  /\ \E call \in incoming : request' = call
  /\ stage' = "sorted"
  /\ UNCHANGED <<storeVars, serviceVars, query, resolved, pool, filtered, retries, picked>>

PickStep ==
  /\ stage = "sorted"
  /\ picked' = pickTopWithDiversity(request.sorted, request.maxPerSub, request.topK)
  /\ stage' = "picked"
  /\ UNCHANGED <<storeVars, serviceVars, request, query, resolved, pool, filtered, retries>>

\* ------------------------------------------------------------- computeScore
\* scores are counted in hundredths: 1.0 is 100, 0.4 is 40
SubExactScore == 100
SubSiblingScore == 60
GenreScore == 80
MoodStep == 40
MoodCap == 80
InstStep == 25
InstCap == 50
ModeScore == 20
PopScore == 20

\* Math.abs(a - b)
AbsDiff(a, b) == IF a >= b THEN a - b ELSE b - a

\* tieredBpmScore: a missing or zero bpm or target scores 0
tieredBpmScore(songBpm, target) ==
  IF songBpm = NoNum \/ songBpm = 0 \/ target = NoNum \/ target = 0 THEN 0
  ELSE LET diff == AbsDiff(songBpm, target) IN
    IF diff <= 3 THEN 60 ELSE IF diff <= 7 THEN 45 ELSE IF diff <= 12 THEN 30
    ELSE IF diff <= 20 THEN 15 ELSE 0

\* modeMatchScore: the song's key, lower-cased, includes the desired mode
modeMatchScore(songKey, desired) ==
  IF desired = NoKeyPref \/ desired.mode = Null THEN 0
  ELSE IF Contains(Lower(songKey), Lower(desired.mode)) THEN ModeScore ELSE 0

\* [...new Set(ids)].filter(id => wanted.has(id)).length
Matches(ids, wanted) == Cardinality(Range(ids) \cap wanted)

MoodScore_uncapped(song, idSets) == Matches(song.moods, idSets.moodIdSet) * MoodStep

\* Math.min(0.8, moodMatches * 0.4)
MoodScore(song, idSets) == Smaller(MoodCap, Matches(song.moods, idSets.moodIdSet) * MoodStep)

\* (tRaw / maxTrending) * 0.2, else (playsRaw / maxPlays) * 0.2, else 0; the
\* analytics of the songs scored here give quotients that are whole hundredths
Popularity(song, maxTrending, maxPlays) ==
  IF maxTrending > 0 /\ song.trendingScore > 0 THEN (song.trendingScore * PopScore) \div maxTrending
  ELSE IF maxPlays > 0 /\ song.totalPlays > 0 THEN (song.totalPlays * PopScore) \div maxPlays
  ELSE 0

computeScore(song, qs, idSets, maxTrending, maxPlays) ==
  LET subExact == IF Matches(song.subGenres, idSets.subGenreIdsSet) > 0 THEN SubExactScore ELSE 0
      subSibling == IF subExact # 0 THEN 0
                    ELSE IF Matches(song.subGenres, idSets.siblingSubGenreIdsSet) > 0
                      THEN SubSiblingScore ELSE 0
      genreMatch == IF Matches(song.genres, idSets.genreIdSet) > 0 THEN GenreScore ELSE 0
      instScore == Smaller(InstCap, Matches(song.instruments, idSets.instrumentIdSet) * InstStep)
      bpmScore == IF qs.tempo # NoTempo THEN tieredBpmScore(song.bpm, qs.tempo.targetBpm) ELSE 0
      keyScore == IF qs.key # NoKeyPref THEN modeMatchScore(song.key, qs.key) ELSE 0
  IN subExact + subSibling + genreMatch + MoodScore(song, idSets) + instScore
     + bpmScore + keyScore + Popularity(song, maxTrending, maxPlays)

\* a song of the catalogue with its genre, mood and instrument tags and its
\* analytics; a song that lacks them counts as having none
Tagged(song, genres, moods, instruments, trendingScore, totalPlays) ==
  [id |-> song.id, from |-> song.from, hasVocals |-> song.hasVocals, bpm |-> song.bpm,
   key |-> song.key, subGenres |-> song.subGenres, genres |-> genres, moods |-> moods,
   instruments |-> instruments, trendingScore |-> trendingScore, totalPlays |-> totalPlays]

\* a call of computeScore for a candidate, for the same candidate with one more
\* mood tag, and for the same candidate without mood tags
ScoreArrives(incoming) ==
  /\ stage = "idle"
  /\ \E call \in incoming : request' = call
  /\ stage' = "toScore"
  /\ UNCHANGED <<storeVars, query, resolved, pool, filtered, retries, picked, serviceVars>>

ScoreWith(call, moods) ==
  computeScore([call.song EXCEPT !.moods = moods], call.spec, call.idSets,
               call.maxTrending, call.maxPlays)

ScoreStep ==
  /\ stage = "toScore"
  /\ scored' = [base |-> ScoreWith(request, request.song.moods),
                more |-> ScoreWith(request, Append(request.song.moods, request.extra)),
                bare |-> ScoreWith(request, <<>>)]
  /\ stage' = "scoredPair"
  /\ UNCHANGED <<storeVars, request, query, resolved, pool, filtered, retries, picked,
                 reply, ai, taxonomy, billing, downloads>>

\* ------------------------------------------------------ plans and AI usage
FreeAi == 5
StarterAi == 200
ProAi == 500
ProPlusAi == 2000

\* PLAN_CONFIG[plan].ai
PlanAi(plan) ==
  CASE plan = "free" -> FreeAi
    [] plan = "starter" -> StarterAi
    [] plan = "pro" -> ProAi
    [] plan = "pro_plus" -> ProPlusAi
    [] plan = "premium" -> StarterAi

\* String(x).toLowerCase() of the plan labels stored on users
LowerPlan(label) ==
  CASE label = "Pro" -> "pro"
    [] label = "PREMIUM" -> "premium"
    [] label = "Gold" -> "gold"
    [] OTHER -> label

\* normalizePlan: an empty label counts as free, premium as starter, an
\* unknown label as starter when is_premium is set
normalizePlan(user) ==
  LET raw == LowerPlan(IF user.subscription_type = "" THEN "free" ELSE user.subscription_type) IN
    IF raw = "premium" THEN "starter"
    ELSE IF raw \in {"starter", "pro", "pro_plus", "free"} THEN raw
    ELSE IF user.is_premium THEN "starter"
    ELSE "free"

\* the entries of aiQueries with start <= at < end for the UTC month of t
usedThisMonth(user, t) ==
  Cardinality({i \in 1..Len(user.aiQueries) : Month(user.aiQueries[i].at) = Month(t)})

\* usedThisMonth >= aiLimit
OverLimit(user, t) == usedThisMonth(user, t) >= PlanAi(normalizePlan(user))

\* $push: { aiQueries: { at: new Date(), topK: limit } }
PushUsage(user, t, limit) ==
  [user EXCEPT !.aiQueries = Append(@, [at |-> t, topK |-> limit])]

\* the way a request comes in: its body is an object, a string of JSON or a
\* string that does not parse; its session is anonymous, without a user id,
\* of a user that no longer exists, of a user whose lookup rejects, or good
BodyKinds == {"object", "jsonString", "badString"}

Sessions == {"anonymous", "noUserId", "unknownUser", "lookupFails", "user"}

\* the status the checks ahead of the pipeline answer with, 0 when they pass
GateStatus(caller, user, t) ==
  IF caller.bodyKind = "badString" THEN 400
  ELSE IF caller.session \in {"anonymous", "noUserId", "unknownUser"} THEN 401
  ELSE IF caller.session = "lookupFails" THEN 500
  ELSE IF OverLimit(user, t) THEN 429
  ELSE 0

GateError(status) ==
  CASE status = 400 -> "INVALID_JSON"
    [] status = 401 -> "UNAUTHORIZED"
    [] status = 429 -> "AI_LIMIT_REACHED"
    [] status = 500 -> "RECOMMENDER_FAILED"

\* a user as stored, with the usage of earlier calls
UserDoc(plan, premium, queries) ==
  [subscription_type |-> plan, is_premium |-> premium, aiQueries |-> queries]

\* res.status(status).json({ ok: false, error })
Rejection(status) == [NotAnswered EXCEPT !.status = status, !.error = GateError(status)]

\* ------------------------------------------- POST /recommend, gate to answer
\* a request as it reaches the route
RouteArrives(bodies, answers, upstreams, callers) ==
  /\ stage = "idle"
  /\ \E body \in bodies, llm \in answers, upstream \in upstreams, caller \in callers :
       request' = [body |-> body, llm |-> llm, upstream |-> upstream, caller |-> caller]
  /\ stage' = "arrived"
  /\ UNCHANGED <<storeVars, serviceVars, query, resolved, pool, filtered, retries, picked>>

\* body parsing, login, User.findById and the monthly limit
GateStep ==
  /\ stage = "arrived"
  /\ LET status == GateStatus(request.caller, ai.user, now) IN
       IF status = 0 THEN /\ stage' = "received"
                          /\ reply' = reply
       ELSE /\ stage' = "rejected"
            /\ reply' = Rejection(status)
  /\ UNCHANGED <<storeVars, request, query, resolved, pool, filtered, retries, picked,
                 scored, ai, taxonomy, billing, downloads>>

\* the sets the scores are computed against
IdSets(ids) ==
  [subGenreIdsSet |-> Range(ids.subGenreIds),
   siblingSubGenreIdsSet |-> Range(ids.siblingSubIds),
   genreIdSet |-> IF ids.genreId # Null THEN {ids.genreId} ELSE {},
   moodIdSet |-> Range(ids.moodIds),
   instrumentIdSet |-> Range(ids.instrumentIds)]

\* song.genres || [], song.analytics?.trendingScore || 0, ...
Full(song) ==
  IF "genres" \in DOMAIN song THEN song ELSE Tagged(song, <<>>, <<>>, <<>>, 0, 0)

\* new Date(song.createdAt || 0).getTime()
CreatedAt(song) == IF "createdAt" \in DOMAIN song THEN song.createdAt ELSE 0

\* the largest of Number(s.analytics.trendingScore || 0), and of totalPlays
MaxTrendingOf(songs) ==
  IF songs = <<>> THEN 0
  ELSE CHOOSE m \in {Full(songs[i]).trendingScore : i \in 1..Len(songs)} :
         \A i \in 1..Len(songs) : Full(songs[i]).trendingScore <= m

MaxPlaysOf(songs) ==
  IF songs = <<>> THEN 0
  ELSE CHOOSE m \in {Full(songs[i]).totalPlays : i \in 1..Len(songs)} :
         \A i \in 1..Len(songs) : Full(songs[i]).totalPlays <= m

\* the comparator puts a before b: higher score, then fresher
RankedBefore(a, b) ==
  \/ a.score > b.score
  \/ a.score = b.score /\ CreatedAt(a.song) > CreatedAt(b.song)

RECURSIVE InsertRanked(_, _)
InsertRanked(sorted, e) ==
  IF sorted = <<>> THEN <<e>>
  ELSE IF RankedBefore(e, Head(sorted)) THEN <<e>> \o sorted
  ELSE <<Head(sorted)>> \o InsertRanked(Tail(sorted), e)

RECURSIVE SortRanked(_)
\* scored.sort(...): a stable sort
SortRanked(list) ==
  IF list = <<>> THEN <<>>
  ELSE InsertRanked(SortRanked(SubSeq(list, 1, Len(list) - 1)), list[Len(list)])

\* score, sort and pick
RankSongs(songs, qs, ids, limit) ==
  LET sets == IdSets(ids)
      maxTrending == MaxTrendingOf(songs)
      maxPlays == MaxPlaysOf(songs)
      list == [i \in 1..Len(songs) |->
                 [song |-> songs[i],
                  score |-> computeScore(Full(songs[i]), qs, sets, maxTrending, maxPlays)]]
      sorted == SortRanked(list)
  IN pickTopWithDiversity([i \in 1..Len(sorted) |-> sorted[i].song], RouteMaxPerSub, limit)

RankStep ==
  /\ stage = "filtered"
  /\ picked' = RankSongs(filtered, query, resolved, Limit(request.body.topK))
  /\ stage' = "ranked"
  /\ UNCHANGED <<storeVars, serviceVars, request, query, resolved, pool, filtered, retries>>

RecordStep_uncaught ==
  /\ stage = "ranked"
  /\ ai' = IF request.caller.recording = "fails" THEN ai
           ELSE [ai EXCEPT !.user = PushUsage(@, now, Limit(request.body.topK))]
  /\ reply' = IF request.caller.recording = "fails" THEN Rejection(500)
              ELSE [status |-> 200, error |-> "", totalCandidates |-> Len(pool),
                    filteredCount |-> Len(filtered), results |-> picked]
  /\ stage' = "replied"
  /\ UNCHANGED <<storeVars, request, query, resolved, pool, filtered, retries, picked,
                 scored, taxonomy, billing, downloads>>

\* User.updateOne with $push inside its own try/catch, then the 200 answer
RecordStep ==
  /\ stage = "ranked"
  /\ ai' = IF request.caller.recording = "fails" THEN ai
           ELSE [ai EXCEPT !.user = PushUsage(@, now, Limit(request.body.topK))]
  /\ reply' = [status |-> 200, error |-> "", totalCandidates |-> Len(pool),
               filteredCount |-> Len(filtered), results |-> picked]
  /\ stage' = "replied"
  /\ UNCHANGED <<storeVars, request, query, resolved, pool, filtered, retries, picked,
                 scored, taxonomy, billing, downloads>>

\* the user the request meets: a plan label and the usage of earlier calls
UsageSetup(docs) ==
  /\ stage = "idle"
  /\ ai = NoUsage
  /\ now = 0
  /\ \E doc \in docs : ai' = [ai EXCEPT !.user = doc]
  /\ UNCHANGED <<storeVars, pipelineVars, scored, reply, taxonomy, billing, downloads>>

\* ------------------------------------------------- refreshTaxonomyIfStale
\* what the admin service serves at a version: the taxonomy, then one genre
\* more, then no moods at all
ContentOf(v) ==
  CASE v = 1 -> Taxonomy
    [] v = 2 -> [Taxonomy EXCEPT !.genres = Append(@, [id |-> "G4", name |-> "Jazz"])]
    [] OTHER -> [Taxonomy EXCEPT !.moods = <<>>]

\* Map.set over a list: the last entry of a key wins
ById(list) ==
  [id \in {list[i].id : i \in 1..Len(list)} |->
     list[CHOOSE i \in 1..Len(list) :
            list[i].id = id /\ \A j \in (i + 1)..Len(list) : list[j].id # id]]

ByName(list) ==
  [name \in {Lower(list[i].name) : i \in 1..Len(list)} |->
     list[CHOOSE i \in 1..Len(list) :
            /\ Lower(list[i].name) = name
            /\ \A j \in (i + 1)..Len(list) : Lower(list[j].name) # name]]

\* buildMaps
buildMaps(lists) ==
  [genreById |-> ById(lists.genres), genreByName |-> ByName(lists.genres),
   subById |-> ById(lists.subGenres), subByName |-> ByName(lists.subGenres),
   parentBySubId |-> [id \in DOMAIN ById(lists.subGenres) |-> ById(lists.subGenres)[id].genre],
   moodById |-> ById(lists.moods), moodByName |-> ByName(lists.moods),
   instById |-> ById(lists.instruments), instByName |-> ByName(lists.instruments)]

\* isEmpty: one of the four lists has no entry
CacheIsEmpty(c) ==
  \/ c.lists.genres = <<>>
  \/ c.lists.subGenres = <<>>
  \/ c.lists.moods = <<>>
  \/ c.lists.instruments = <<>>

\* fresh enough; skip version check
CacheIsFresh(c, t) ==
  ~CacheIsEmpty(c) /\ c.v # 0 /\ c.lastLoadedAt # 0 /\ t - c.lastLoadedAt < TTL_MS

\* a call of refreshTaxonomyIfStale up to its first await
RefreshStart(r) ==
  /\ taxonomy.runs[r].pc = "idle"
  /\ taxonomy' =
       IF CacheIsFresh(taxonomy.cache, taxonomy.clock)
         THEN [taxonomy EXCEPT !.runs[r] = [@ EXCEPT !.pc = "done", !.requests = 0]]
       ELSE [taxonomy EXCEPT !.runs[r] =
               [pc |-> "version", startedAt |-> taxonomy.clock,
                isEmpty |-> CacheIsEmpty(taxonomy.cache), ver |-> 0, requests |-> 1]]
  /\ UNCHANGED <<storeVars, pipelineVars, scored, reply, ai, billing, downloads>>

\* the answer of /api/content/version arrives, or the request fails
RefreshVersion(r, ok) ==
  /\ taxonomy.runs[r].pc = "version"
  /\ taxonomy' =
       IF ~ok THEN [taxonomy EXCEPT !.runs[r].pc = "done"]
       ELSE IF taxonomy.cache.v = 0 \/ taxonomy.cache.v # taxonomy.admin
               \/ taxonomy.runs[r].isEmpty
         THEN [taxonomy EXCEPT !.runs[r].pc = "lists", !.runs[r].ver = taxonomy.admin,
                               !.runs[r].requests = 5]
       ELSE [taxonomy EXCEPT !.runs[r].pc = "done",
                             !.cache.lastLoadedAt = taxonomy.runs[r].startedAt]
  /\ UNCHANGED <<storeVars, pipelineVars, scored, reply, ai, billing, downloads>>

\* the four lists arrive and are stored with the version read before, or one
\* of the four requests fails
RefreshLists(r, ok) ==
  /\ taxonomy.runs[r].pc = "lists"
  /\ taxonomy' =
       IF ~ok THEN [taxonomy EXCEPT !.runs[r].pc = "done"]
       ELSE [taxonomy EXCEPT
               !.runs[r].pc = "done",
               !.cache = [v |-> taxonomy.runs[r].ver,
                          lists |-> ContentOf(taxonomy.admin),
                          maps |-> buildMaps(ContentOf(taxonomy.admin)),
                          lastLoadedAt |-> taxonomy.clock]]
  /\ UNCHANGED <<storeVars, pipelineVars, scored, reply, ai, billing, downloads>>

\* the call has returned; the next request calls again
RefreshReturn(r) ==
  /\ taxonomy.runs[r].pc = "done"
  /\ taxonomy' = [taxonomy EXCEPT !.runs[r].pc = "idle"]
  /\ UNCHANGED <<storeVars, pipelineVars, scored, reply, ai, billing, downloads>>

\* the admin service publishes a new content version
AdminPublish(maxVersion) ==
  /\ taxonomy.admin < maxVersion
  /\ taxonomy' = [taxonomy EXCEPT !.admin = @ + 1]
  /\ UNCHANGED <<storeVars, pipelineVars, scored, reply, ai, billing, downloads>>

\* Date.now() moves on
ClockTick(maxSteps) ==
  /\ taxonomy.clock < (maxSteps + 1) * ClockStepMs
  /\ taxonomy' = [taxonomy EXCEPT !.clock = @ + ClockStepMs]
  /\ UNCHANGED <<storeVars, pipelineVars, scored, reply, ai, billing, downloads>>

\* ------------------------------------ concurrent requests of one user
\* request r up to the quota check: User.findById, the count of the month,
\* then the 429 or the way on into the pipeline
QuotaCheck(r) ==
  /\ ai.reqs[r].pc = "start"
  /\ ai' = [ai EXCEPT !.reqs[r] =
              [pc |-> IF OverLimit(ai.user, now) THEN "done" ELSE "running",
               status |-> IF OverLimit(ai.user, now) THEN 429 ELSE 0,
               used |-> usedThisMonth(ai.user, now),
               limit |-> PlanAi(normalizePlan(ai.user))]]
  /\ UNCHANGED <<storeVars, pipelineVars, scored, reply, taxonomy, billing, downloads>>

\* request r from the pipeline, which leaves the user alone, to its answer:
\* the $push of the usage event, accepted or rejected, and the 200
QuotaRecord(r, ok) ==
  /\ ai.reqs[r].pc = "running"
  /\ ai' = [ai EXCEPT !.user = IF ok THEN PushUsage(@, now, DefaultTopK) ELSE @,
                      !.reqs[r].pc = "done",
                      !.reqs[r].status = 200]
  /\ UNCHANGED <<storeVars, pipelineVars, scored, reply, taxonomy, billing, downloads>>

\* ------------------------------------------------------------------ billing
\* days a plan runs from its base date
PlanDays == 30

\* the calendar of the billing scenario: the clock moves half a month at a time
DayStep == 15
DaysPerMonth == 30

BillingMonth(day) == day \div DaysPerMonth

\* normalizePlanLabel: starter, pro and pro_plus pass, everything else is starter
normalizePlanLabel(plan) ==
  IF plan \in {"starter", "pro", "pro_plus"} THEN plan ELSE "starter"

\* subscription_type && subscription_type !== 'free' && subscription_end && end > now
hasActivePaid(user, day) ==
  /\ user.subscription_type # ""
  /\ user.subscription_type # "free"
  /\ user.subscription_end # 0
  /\ user.subscription_end > day

\* the entries of a usage list outside the UTC month of day
OutsideMonth(list, day) ==
  SelectSeq(list, LAMBDA at : BillingMonth(at) # BillingMonth(day))

\* the activation block of both handlers: the plan runs 30 days from the end
\* of an active paid plan or from now, and the usage of the month is dropped
Activate(user, plan, day) ==
  [user EXCEPT !.subscription_type = plan,
               !.is_premium = TRUE,
               !.subscription_start = day,
               !.subscription_end = (IF hasActivePaid(user, day) THEN @ ELSE day) + PlanDays,
               !.downloads = OutsideMonth(@, day),
               !.aiQueries = OutsideMonth(@, day)]

\* what a saved activation did, kept beside the user for the properties
Activation(payment, via, user, plan, day) ==
  [paymentId |-> payment.id, via |-> via, plan |-> plan, day |-> day,
   endBefore |-> user.subscription_end,
   endAfter |-> Activate(user, plan, day).subscription_end,
   dropped |-> (Len(user.downloads) + Len(user.aiQueries))
               - (Len(OutsideMonth(user.downloads, day)) + Len(OutsideMonth(user.aiQueries, day)))]

\* the answer of the webhook to a delivery, by the first check that stops it
WebhookOutcome(d, events) ==
  IF d.signature # "valid" THEN [status |-> 400, body |-> "INVALID_SIGNATURE", event |-> FALSE]
  ELSE IF d.event # "payment.captured" THEN [status |-> 200, body |-> "ignored", event |-> FALSE]
  ELSE IF d.payment.id = "" \/ d.payment.orderId = ""
    THEN [status |-> 200, body |-> "ignored", event |-> FALSE]
  ELSE IF d.payment.id \in events THEN [status |-> 200, body |-> "dedup", event |-> FALSE]
  ELSE IF d.create = "fails" THEN [status |-> 200, body |-> "notOk", event |-> FALSE]
  ELSE IF d.fetch = "fails" THEN [status |-> 200, body |-> "fetchOrderFailed", event |-> TRUE]
  ELSE IF d.payment.userId = "" THEN [status |-> 200, body |-> "noUser", event |-> TRUE]
  ELSE IF d.payment.userId # "u1" THEN [status |-> 200, body |-> "noUser", event |-> TRUE]
  ELSE IF d.save = "fails" THEN [status |-> 200, body |-> "notOk", event |-> TRUE]
  ELSE [status |-> 200, body |-> "activated", event |-> TRUE]

\* POST /api/billing/webhook, one delivery
Webhook(d) ==
  LET out == WebhookOutcome(d, billing.events)
      plan == normalizePlanLabel(d.payment.plan)
  IN /\ billing.today > 0
     /\ Len(billing.activations) < MaxActivations
     /\ billing' =
          [billing EXCEPT
             !.events = IF out.event THEN @ \cup {d.payment.id} ELSE @,
             !.user = IF out.body = "activated" THEN Activate(@, plan, billing.today) ELSE @,
             !.activations = IF out.body = "activated"
                               THEN Append(@, Activation(d.payment, "webhook", billing.user,
                                                         plan, billing.today))
                               ELSE @,
             !.res = [status |-> out.status, body |-> out.body]]
     /\ UNCHANGED <<storeVars, pipelineVars, scored, reply, ai, taxonomy, downloads>>

\* the answer of POST /verify to a call, by the first check that stops it
VerifyOutcome(c) ==
  IF c.session # "user" THEN [status |-> 401, body |-> "Not authenticated"]
  ELSE IF c.payment.id = "" \/ c.payment.orderId = "" \/ c.signature = "missing"
    THEN [status |-> 400, body |-> "MISSING_FIELDS"]
  ELSE IF c.signature # "valid" THEN [status |-> 400, body |-> "INVALID_SIGNATURE"]
  ELSE IF c.save = "fails" THEN [status |-> 500, body |-> "VERIFY_FAILED"]
  ELSE [status |-> 200, body |-> "activated"]

\* POST /api/billing/verify: the plan is the one the client names
Verify(c) ==
  LET out == VerifyOutcome(c)
      plan == normalizePlanLabel(c.plan)
  IN /\ billing.today > 0
     /\ Len(billing.activations) < MaxActivations
     /\ billing' =
          [billing EXCEPT
             !.user = IF out.body = "activated" THEN Activate(@, plan, billing.today) ELSE @,
             !.activations = IF out.body = "activated"
                               THEN Append(@, Activation(c.payment, "verify", billing.user,
                                                         plan, billing.today))
                               ELSE @,
             !.res = [status |-> out.status, body |-> out.body]]
     /\ UNCHANGED <<storeVars, pipelineVars, scored, reply, ai, taxonomy, downloads>>

\* the user downloads a song or asks the recommender: one more entry dated now
BillingUse(kind, maxUse) ==
  /\ billing.today > 0
  /\ Len(billing.user.downloads) + Len(billing.user.aiQueries) < maxUse
  /\ billing' = IF kind = "download"
                  THEN [billing EXCEPT !.user.downloads = Append(@, billing.today), !.res = [status |-> 0, body |-> ""]]
                  ELSE [billing EXCEPT !.user.aiQueries = Append(@, billing.today), !.res = [status |-> 0, body |-> ""]]
  /\ UNCHANGED <<storeVars, pipelineVars, scored, reply, ai, taxonomy, downloads>>

\* the user the payments meet, on the first day
BillingSetup(users) ==
  /\ billing = NoBilling
  /\ \E doc \in users : billing' = [billing EXCEPT !.user = doc, !.today = DayStep]
  /\ UNCHANGED <<storeVars, pipelineVars, scored, reply, ai, taxonomy, downloads>>

BillingTick(maxDays) ==
  /\ billing.today > 0
  /\ billing.today < maxDays * DayStep
  /\ billing' = [billing EXCEPT !.today = @ + DayStep, !.res = [status |-> 0, body |-> ""]]
  /\ UNCHANGED <<storeVars, pipelineVars, scored, reply, ai, taxonomy, downloads>>

\* ------------------------------------------------------ POST /track-download
FreeDownloads == 3
PremiumDownloads == 50
LicenseAttempts == 5

\* isPremiumActive: premium by type or flag, and the end date missing or ahead
isPremiumActive(user, day) ==
  /\ user.subscription_type = "premium" \/ user.is_premium
  /\ user.subscription_end = 0 \/ user.subscription_end > day

\* the downloads dated in the UTC month of day
DownloadsThisMonth(user, day) ==
  Cardinality({i \in 1..Len(user.downloads) :
                 BillingMonth(user.downloads[i].downloadedAt) = BillingMonth(day)})

\* createLicenseWithRetries: License.create meets `collisions` duplicate-key
\* errors in a row before it would succeed; any other error, a duplicate on
\* the last attempt and a failing getUniqueLicenseId are thrown
LicenseCreated(attempt) ==
  /\ attempt.error = "none"
  /\ attempt.collisions < LicenseAttempts

\* the checks ahead of the license, 0 when they all pass
DownloadGate(c, user, day) ==
  IF c.session # "user" THEN [status |-> 401, error |-> "Not authenticated"]
  ELSE IF c.song.id = "" \/ c.title = "" THEN [status |-> 400, error |-> "REQUIRED"]
  ELSE IF ~c.song.validId THEN [status |-> 400, error |-> "INVALID_SONG_ID"]
  ELSE IF ~c.userFound THEN [status |-> 401, error |-> "User not found"]
  ELSE IF ~c.song.stored THEN [status |-> 404, error |-> "SONG_NOT_FOUND"]
  ELSE IF c.song.collectionType = "paid" /\ ~isPremiumActive(user, day)
    THEN [status |-> 403, error |-> "PREMIUM_REQUIRED"]
  ELSE IF DownloadsThisMonth(user, day)
            >= (IF isPremiumActive(user, day) THEN PremiumDownloads ELSE FreeDownloads)
    THEN [status |-> 429, error |-> "LIMIT_REACHED"]
  ELSE [status |-> 0, error |-> ""]

\* the license document of a call
LicenseOf(c, user, day) ==
  [songId |-> c.song.id, collectionType |-> c.song.collectionType,
   planAtIssue |-> IF isPremiumActive(user, day) THEN "premium" ELSE "free",
   issuedAt |-> day]

\* the handler from the first check to the answer
TrackDownload(c) ==
  LET user == downloads.user
      day == downloads.today
      gate == DownloadGate(c, user, day)
      license == LicenseOf(c, user, day)
      entry == [songId |-> c.song.id, downloadedAt |-> day]
  IN /\ downloads.today > 0
     /\ Len(downloads.licenses) < downloads.seeded + MaxLicenses
     /\ downloads' =
          IF gate.status # 0 THEN [downloads EXCEPT !.res = gate]
          ELSE IF ~LicenseCreated(c.license)
            THEN [downloads EXCEPT !.res = [status |-> 500, error |-> "LICENSE_CREATE_FAILED"]]
          ELSE IF c.save = "ok"
            THEN [downloads EXCEPT !.licenses = Append(@, license),
                                   !.user.downloads = Append(@, entry),
                                   !.res = [status |-> 201, error |-> ""]]
          ELSE IF c.rollback = "ok"
            THEN [downloads EXCEPT !.res = [status |-> 500, error |-> "DOWNLOAD_RECORD_FAILED"]]
          ELSE [downloads EXCEPT !.licenses = Append(@, license),
                                 !.res = [status |-> 500, error |-> "DOWNLOAD_RECORD_FAILED"]]
     /\ UNCHANGED <<storeVars, pipelineVars, scored, reply, ai, taxonomy, billing>>

\* the user the downloads meet, every earlier download with its license
DownloadSetup(users) ==
  /\ downloads = NoDownloads
  /\ \E doc \in users :
       downloads' =
         [downloads EXCEPT
            !.user = doc,
            !.licenses = [i \in 1..Len(doc.downloads) |->
                            [songId |-> doc.downloads[i].songId, collectionType |-> "free",
                             planAtIssue |-> IF isPremiumActive(doc, DayStep) THEN "premium"
                                             ELSE "free",
                             issuedAt |-> doc.downloads[i].downloadedAt]],
            !.seeded = Len(doc.downloads),
            !.today = DayStep]
  /\ UNCHANGED <<storeVars, pipelineVars, scored, reply, ai, taxonomy, billing>>

DownloadTick(maxDays) ==
  /\ downloads.today > 0
  /\ downloads.today < maxDays * DayStep
  /\ downloads' = [downloads EXCEPT !.today = @ + DayStep, !.res = [status |-> 0, error |-> ""]]
  /\ UNCHANGED <<storeVars, pipelineVars, scored, reply, ai, taxonomy, billing>>

\* ------------------------------------------ requests that reach understand
Briefs ==
  {"calm ambient music for meditation, no vocals",
   "instrumental piano for study",
   "energetic rock with vocals",
   "corporate explainer in a major key",
   "forest walk",
   "drone in a minor key, no singer",
   ""}

Toggles == {"on", "off", ""}

Bodies == {[queryText |-> b, vocals |-> toggle, topK |-> 10] : b \in Briefs, toggle \in Toggles}

\* the answer {} : no field of the QuerySpec schema is present
EmptyObject ==
  [intent |-> "", genre |-> NotAString, subGenres |-> JNotArray, moods |-> JNotArray,
   instruments |-> JNotArray,
   tempo |-> [targetBpm |-> JOther, min |-> JOther, max |-> JOther, expandSteps |-> JNotArray],
   key |-> [mode |-> NotAString, preferred |-> JNotArray],
   vocals |-> NotAString, priority |-> JNotArray]

\* a list of n names, taken in turn from the given ones
Cycle(names, n) == [i \in 1..n |-> names[((i - 1) % Len(names)) + 1]]

SubGenreAnswers ==
  {JNotArray, JArray(<<>>), JArray(<<"Drone", "Jazzcore", "Meditation", NotAString>>),
   JArray(Cycle(<<"Drone", "Meditation", "Nature", "Hard Rock">>, MaxNames))}

MoodAnswers == {JArray(<<"Sad", "Calm">>), JArray(Cycle(<<"Calm">>, MaxNames))}

InstrumentAnswers == {JNotArray, JArray(Cycle(<<"Piano", "Kazoo", "Guitar">>, MaxNames))}

\* answers that differ in the names they carry
NameAnswers ==
  {[EmptyObject EXCEPT !.intent = "llm", !.genre = g, !.subGenres = sg, !.moods = m,
                       !.instruments = ins, !.vocals = "any"] :
     g \in {"Ambient", "Jazzcore", NotAString}, sg \in SubGenreAnswers,
     m \in MoodAnswers, ins \in InstrumentAnswers}

BpmChoices == {60, 90, 120}

TempoValues == {JOther, JNumString(100)} \cup {JNumber(b) : b \in BpmChoices}

StepAnswers ==
  {JNotArray, JArray(<<>>), JArray(<<JNumber(3), JNumString(7), JOther, JNull>>)}

\* answers that differ in their tempo
TempoAnswers ==
  {[EmptyObject EXCEPT !.genre = "Ambient",
                       !.tempo = [targetBpm |-> tgt, min |-> lo, max |-> hi,
                                  expandSteps |-> steps]] :
     tgt \in TempoValues, lo \in TempoValues, hi \in TempoValues, steps \in StepAnswers}

LlmAnswers ==
  {[kind |-> k, parsed |-> EmptyObject] : k \in LlmFailures \cup {"json"}}
  \cup {[kind |-> "json", parsed |-> a] : a \in NameAnswers \cup TempoAnswers}

\* a request that is logged in and within its quota reaches line 805
RecommendArrives(bodies, answers, upstreams) ==
  /\ stage = "idle"
  /\ \E body \in bodies, llm \in answers, upstream \in upstreams :
       request' = [body |-> body, llm |-> llm, upstream |-> upstream]
  /\ stage' = "received"
  /\ UNCHANGED <<storeVars, serviceVars, query, resolved, pool, filtered, retries, picked>>

UnderstandStep ==
  /\ stage = "received"
  /\ query' = Understand(Taxonomy, request.body, request.llm)
  /\ stage' = "understood"
  /\ UNCHANGED <<storeVars, serviceVars, request, resolved, pool, filtered, retries, picked>>

\* the admin backend and the songs collection have nothing to offer
QuietUpstream ==
  [facets |-> [f \in FacetNames |-> Answered(<<>>)], trending |-> Answered(<<>>),
   local |-> Answered(<<>>)]

UnderstandArrives == RecommendArrives(Bodies, LlmAnswers, {QuietUpstream})

NextUnderstand == UnderstandArrives \/ UnderstandStep

SpecUnderstand == Init /\ [][NextUnderstand]_vars

\* --------------------------------------------- requests that reach collect
CollectStep ==
  /\ stage = "understood"
  /\ LET r == CollectOutcome(Taxonomy, query, request.upstream) IN
       /\ resolved' = r.ids
       /\ pool' = r.pool
       /\ stage' = IF r.direct THEN "collectedDirect" ELSE "collected"
  /\ UNCHANGED <<storeVars, serviceVars, request, query, filtered, retries, picked>>

PlainSong(id, from) == Song(id, from, "true", 100, "c major", <<"S1">>)

\* as many songs as the pool needs to do without the trending list
ManySongs == [i \in 1..TrendingBelow |-> PlainSong(i, "genre")]

\* the answers overlap in song 1..5; the mood answer lists song 5 twice
FacetAnswers ==
  [subGenre |-> {Failed, Answered(<<PlainSong(1, "subGenre"), PlainSong(2, "subGenre")>>)},
   sibling |-> {Failed, Answered(<<PlainSong(2, "sibling"), PlainSong(3, "sibling")>>)},
   genre |-> {Failed, Answered(<<PlainSong(4, "genre"), PlainSong(1, "genre")>>),
              Answered(ManySongs)},
   mood |-> {Failed, Answered(<<PlainSong(5, "mood"), PlainSong(3, "mood"),
                                PlainSong(5, "mood again")>>)},
   instrument |-> {Failed, Answered(<<PlainSong(4, "instrument")>>)}]

TrendingAnswers == {Failed, Answered(<<PlainSong(6, "trending"), PlainSong(5, "trending")>>)}

LocalAnswers ==
  {Failed,
   Answered(<<PlainSong(7, "local"), Song(8, "local", "false", 70, "a minor", <<>>)>>)}

FacetChoices ==
  {[subGenre |-> a, sibling |-> b, genre |-> c, mood |-> d, instrument |-> e] :
     a \in FacetAnswers.subGenre, b \in FacetAnswers.sibling, c \in FacetAnswers.genre,
     d \in FacetAnswers.mood, e \in FacetAnswers.instrument}

CollectUpstreams ==
  {[facets |-> fa, trending |-> tr, local |-> lo] :
     fa \in FacetChoices, tr \in TrendingAnswers, lo \in LocalAnswers}

CollectBodies ==
  {[queryText |-> b, vocals |-> "", topK |-> 10] :
     b \in {"calm ambient music for meditation, no vocals", "instrumental piano for study",
            "energetic rock with vocals", "forest walk", ""}}

CollectArrives ==
  RecommendArrives(CollectBodies, {[kind |-> "noKey", parsed |-> EmptyObject]},
                   CollectUpstreams)

NextCollect == CollectArrives \/ UnderstandStep \/ CollectStep

SpecCollect == Init /\ [][NextCollect]_vars

\* ---------------------------------------------- requests that reach filter
\* hasVocals true, false and absent, each with a bpm below, inside and above
\* the calm band and absent; every fifth song has a sub-genre of its own
VocalsOf(i) == IF i % 3 = 0 THEN "true" ELSE IF i % 3 = 1 THEN "false" ELSE "undefined"

MixedSongs ==
  [i \in 1..12 |->
     Song(i, "trending", VocalsOf(i),
          IF i <= 3 THEN 50 ELSE IF i <= 6 THEN 75 ELSE IF i <= 9 THEN 100 ELSE NoNum,
          "c major", <<>>)]

\* songs with hasVocals true at 51, 52, ... bpm
RisingSongs == [i \in 1..MaxPool |-> Song(i, "trending", "true", 50 + i, "a minor", <<"S1">>)]

FilterUpstreams ==
  {[QuietUpstream EXCEPT !.trending = Answered(songs)] : songs \in {MixedSongs, RisingSongs}}

TopKs == {0, 11, 25, -3}

FilterBodies ==
  {[queryText |-> b, vocals |-> toggle, topK |-> k] :
     b \in {"calm ambient music for meditation, no vocals", "energetic rock with vocals", ""},
     toggle \in Toggles, k \in TopKs}

\* the LLM is unavailable, or it answers with vocals any and a window
FilterAnswers ==
  {[kind |-> "noKey", parsed |-> EmptyObject]}
  \cup {[kind |-> "json",
         parsed |-> [EmptyObject EXCEPT
                       !.vocals = "any",
                       !.tempo = [targetBpm |-> JNumber(80), min |-> lo, max |-> JNumber(90),
                                  expandSteps |-> steps]]] :
          lo \in {JNumber(60), JOther},
          steps \in {JNotArray, JArray(<<JNumber(15)>>), JArray(<<JNumber(5), JNumber(5), JNumber(5), JNumber(5)>>)}}

FilterArrives == RecommendArrives(FilterBodies, FilterAnswers, FilterUpstreams)

NextFilter ==
  FilterArrives \/ UnderstandStep \/ CollectStep \/ FilterStep \/ WidenStep \/ WidenDone

SpecFilter == Init /\ [][NextFilter]_vars

\* ------------------------------------------------- calls that reach the pick
GroupSize == 10

\* the sub-genre tags of the i-th song of the other groups: a group of its own,
\* one shared group, or in turn no tag, T1 and T2 with S1 as a second tag
OtherTags(pattern, i) ==
  CASE pattern = "distinct" -> <<"T" \o ToString(i)>>
    [] pattern = "same" -> <<"T1">>
    [] OTHER -> IF i % 3 = 0 THEN <<>>
                ELSE IF i % 3 = 1 THEN <<"T1", "S1">> ELSE <<"T2", "S1">>

\* before songs of other groups, then n songs of sub-genre S1, then after
\* songs of other groups, in the order of the sort
BlockPool(before, n, after, pattern) ==
  [i \in 1..(before + n + after) |->
     Song(i, "genre", "true", 100, "c major",
          IF i > before /\ i <= before + n THEN <<"S1">>
          ELSE OtherTags(pattern, IF i <= before THEN i ELSE i - n))]

BlockPools ==
  {BlockPool(before, n, after, pattern) :
     before \in 0..MaxOthers, n \in {0, GroupSize}, after \in 0..MaxOthers,
     pattern \in {"distinct", "same", "mixed"}}

\* every order of up to MaxShort songs over two groups and no tag
ShortPools ==
  UNION {{[i \in 1..n |-> Song(i, "genre", "true", 100, "c major", tags[i])] :
            tags \in [1..n -> {<<"S1">>, <<"T1">>, <<>>}]} : n \in 0..MaxShort}

PickCalls ==
  {[sorted |-> songs, maxPerSub |-> m, topK |-> k] :
     songs \in BlockPools \cup ShortPools, m \in {1, RouteMaxPerSub}, k \in {3, DefaultTopK}}

PickCallArrives == PickArrives(PickCalls)

NextPick == PickCallArrives \/ PickStep

SpecPick == Init /\ [][NextPick]_vars

\* ---------------------------------------------------- calls of computeScore
MaxMoodTags == 3

MoodIds == {"M1", "M2", "M3", "M4"}

\* every list of up to MaxMoodTags mood tags, repeated tags included
MoodLists == UNION {[1..n -> MoodIds] : n \in 0..MaxMoodTags}

\* the requested sets of the route for one resolved sub-genre with a sibling,
\* its genre and three instruments, and for nothing resolved
IdSetsFor(moodIds) ==
  {[subGenreIdsSet |-> {"S1"}, siblingSubGenreIdsSet |-> {"S2"}, genreIdSet |-> {"G1"},
    moodIdSet |-> moodIds, instrumentIdSet |-> {"I1", "I2", "I3"}],
   [subGenreIdsSet |-> {}, siblingSubGenreIdsSet |-> {}, genreIdSet |-> {},
    moodIdSet |-> moodIds, instrumentIdSet |-> {}]}

\* the rest of a candidate: an exact and a sibling sub-genre match, no match,
\* one to three instruments, a bpm near and far from the target, a key in and
\* out of the mode, trending and play counts
ScoreSongs ==
  {Tagged(Song(1, "genre", "true", 75, "a minor", <<"S1", "S2">>), <<"G1">>, <<>>,
          <<"I1", "I2", "I3">>, 2, 0),
   Tagged(Song(2, "genre", "false", 85, "c major", <<"S2">>), <<"G2">>, <<>>, <<"I1">>, 0, 3),
   Tagged(Song(3, "trending", "undefined", NoNum, "", <<>>), <<>>, <<>>, <<>>, 0, 0),
   Tagged(Song(4, "genre", "true", 120, "e minor", <<"S4">>), <<"G1", "G3">>, <<>>,
          <<"I2", "I2">>, 4, 6)}

ScoreSpecs ==
  {deriveHeuristicSpec(Taxonomy, b, Null) :
     b \in {"calm ambient music for meditation, no vocals", "drone in a minor key, no singer",
            "forest walk"}}

ScoreCalls ==
  {[song |-> [s EXCEPT !.moods = moods], extra |-> extra, spec |-> qs, idSets |-> sets,
    maxTrending |-> top[1], maxPlays |-> top[2]] :
     s \in ScoreSongs, moods \in MoodLists, extra \in MoodIds, qs \in ScoreSpecs,
     sets \in IdSetsFor({"M1", "M2", "M3"}) \cup IdSetsFor({}),
     top \in {<<4, 6>>, <<0, 6>>, <<0, 0>>}}

ScoreCallArrives == ScoreArrives(ScoreCalls)

NextScore == ScoreCallArrives \/ ScoreStep

SpecScore == Init /\ [][NextScore]_vars

\* ------------------------------------------ requests through the whole route
\* n usage events of the month the model starts in
History(n) == [i \in 1..n |-> [at |-> 0, topK |-> 10]]

PlanLabels ==
  {<<"free", FALSE>>, <<"", FALSE>>, <<"starter", TRUE>>, <<"premium", TRUE>>, <<"Pro", TRUE>>,
   <<"pro_plus", TRUE>>, <<"Gold", TRUE>>, <<"Gold", FALSE>>}

\* each plan label with usage one short of its limit and at its limit
UsageSeeds ==
  {UserDoc(p[1], p[2], History(PlanAi(normalizePlan(UserDoc(p[1], p[2], <<>>))) - short)) :
     p \in PlanLabels, short \in {0, 1}}

RouteSetup == UsageSetup(UsageSeeds)

\* the songs of the local collection, in the order of the direct query's sort
LocalSongs ==
  <<Tagged(Song(11, "local", "false", 70, "a minor", <<"S1">>), <<"G1">>, <<"M1">>, <<"I1">>, 4, 9),
    Tagged(Song(12, "local", "true", 80, "c major", <<"S2">>), <<"G1">>, <<"M1", "M2">>, <<>>, 3, 0),
    Tagged(Song(13, "local", "false", 100, "e minor", <<"S1">>), <<"G1">>, <<>>, <<>>, 2, 5),
    Tagged(Song(14, "local", "undefined", 75, "d minor", <<>>), <<>>, <<"M1">>, <<>>, 1, 0),
    Tagged(Song(15, "local", "false", NoNum, "", <<"S3">>), <<"G2">>, <<>>, <<"I2">>, 0, 7),
    Tagged(Song(16, "local", "false", 62, "g major", <<"S1">>), <<"G1">>, <<"M1">>, <<>>, 0, 0)>>

FacetSongs(from) ==
  <<Tagged(Song(21, from, "false", 74, "a minor", <<"S1">>), <<"G1">>, <<"M1">>, <<>>, 2, 0),
    Tagged(Song(22, from, "true", 76, "c major", <<"S2">>), <<"G1">>, <<>>, <<"I1">>, 4, 0)>>

AllFacets(answer) == [f \in FacetNames |-> answer]

RouteUpstreams ==
  {[facets |-> AllFacets(Failed), trending |-> Answered(FacetSongs("trending")),
    local |-> Answered(LocalSongs)],
   [facets |-> AllFacets(Failed), trending |-> Failed, local |-> Failed],
   [facets |-> [AllFacets(Answered(<<>>)) EXCEPT !.genre = Answered(FacetSongs("genre")),
                                                !.mood = Failed],
    trending |-> Answered(<<>>), local |-> Answered(LocalSongs)],
   [facets |-> [AllFacets(Answered(<<>>)) EXCEPT !.genre = Answered(FacetSongs("genre"))],
    trending |-> Answered(LocalSongs), local |-> Answered(<<>>)],
   QuietUpstream}

RouteBodies ==
  {[queryText |-> b, vocals |-> toggle, topK |-> 0] :
     b \in {"calm ambient music for meditation, no vocals", "drone in a minor key, no singer", ""},
     toggle \in {"", "off"}}
  \cup {[queryText |-> "calm ambient music for meditation, no vocals", vocals |-> "off",
         topK |-> 2]}

Caller(bodyKind, session, recording) ==
  [bodyKind |-> bodyKind, session |-> session, recording |-> recording]

RouteCallers ==
  {Caller("object", "user", "ok"), Caller("object", "user", "fails"),
   Caller("jsonString", "user", "ok"), Caller("badString", "user", "ok"),
   Caller("badString", "anonymous", "ok"), Caller("object", "anonymous", "ok"),
   Caller("object", "noUserId", "ok"), Caller("object", "unknownUser", "ok"),
   Caller("object", "lookupFails", "ok")}

RouteRequestArrives ==
  RouteArrives(RouteBodies, {[kind |-> "noKey", parsed |-> EmptyObject]}, RouteUpstreams,
               RouteCallers)

NextRoute ==
  \/ RouteSetup
  \/ RouteRequestArrives
  \/ GateStep
  \/ UnderstandStep
  \/ CollectStep
  \/ FilterStep
  \/ WidenStep
  \/ WidenDone
  \/ RankStep
  \/ RecordStep
  \/ Tick

SpecRoute == Init /\ [][NextRoute]_vars

\* ------------------------------------------------ refreshes of the taxonomy
MaxPublished == 3
MaxClockSteps == 3

RefreshStartAny == \E r \in {"A", "B"} : RefreshStart(r)

RefreshVersionAny == \E r \in {"A", "B"}, ok \in BOOLEAN : RefreshVersion(r, ok)

RefreshListsAny == \E r \in {"A", "B"}, ok \in BOOLEAN : RefreshLists(r, ok)

RefreshReturnAny == \E r \in {"A", "B"} : RefreshReturn(r)

Publish == AdminPublish(MaxPublished)

RefreshClock == ClockTick(MaxClockSteps)

NextRefresh ==
  \/ RefreshStartAny
  \/ RefreshVersionAny
  \/ RefreshListsAny
  \/ RefreshReturnAny
  \/ Publish
  \/ RefreshClock

SpecRefresh == Init /\ [][NextRefresh]_vars

\* ---------------------------------------- two requests of one user at once
QuotaSetup == UsageSetup(UsageSeeds)

QuotaCheckAny == \E r \in {"A", "B"} : QuotaCheck(r)

QuotaRecordAny == \E r \in {"A", "B"}, ok \in BOOLEAN : QuotaRecord(r, ok)

NextQuota == QuotaSetup \/ QuotaCheckAny \/ QuotaRecordAny \/ Tick

SpecQuota == Init /\ [][NextQuota]_vars

\* ------------------------------------------------- payments and their calls
\* a captured payment of the user for the pro plan, a second one for the
\* starter plan, one whose order names a user that does not exist, one whose
\* order has no userId in its notes and one without an order id
Payments ==
  {[id |-> "pay_1", orderId |-> "order_1", userId |-> "u1", plan |-> "pro"],
   [id |-> "pay_2", orderId |-> "order_2", userId |-> "u1", plan |-> "premium"],
   [id |-> "pay_3", orderId |-> "order_3", userId |-> "u9", plan |-> "pro_plus"],
   [id |-> "pay_4", orderId |-> "order_4", userId |-> "", plan |-> ""],
   [id |-> "pay_5", orderId |-> "", userId |-> "u1", plan |-> "pro"]}

Deliveries ==
  {[signature |-> s, event |-> "payment.captured", payment |-> p, create |-> "ok",
    fetch |-> "ok", save |-> "ok"] : s \in {"valid", "invalid"}, p \in Payments}
  \cup {[signature |-> "valid", event |-> e, payment |-> p, create |-> c, fetch |-> f,
         save |-> s] :
          e \in {"payment.captured", "payment.failed"},
          p \in {q \in Payments : q.id = "pay_1"},
          c \in {"ok", "fails"}, f \in {"ok", "fails"}, s \in {"ok", "fails"}}

VerifyCalls ==
  {[session |-> a, signature |-> s, payment |-> p, plan |-> p.plan, save |-> "ok"] :
     a \in {"user", "anonymous"}, s \in {"valid", "invalid", "missing"},
     p \in {q \in Payments : q.id \in {"pay_1", "pay_2", "pay_5"}}}
  \cup {[session |-> "user", signature |-> "valid", payment |-> p, plan |-> l, save |-> s] :
          p \in {q \in Payments : q.id = "pay_1"},
          l \in {"pro", "pro_plus", ""}, s \in {"ok", "fails"}}

\* a free user, and a starter whose plan runs to day 30
BillingUsers ==
  {[NoBilling.user EXCEPT !.subscription_type = "free"],
   [NoBilling.user EXCEPT !.subscription_type = "starter", !.is_premium = TRUE,
                          !.subscription_start = 0, !.subscription_end = 2 * DayStep]}

BillingStart == BillingSetup(BillingUsers)

WebhookArrives == \E d \in Deliveries : Webhook(d)

VerifyArrives == \E c \in VerifyCalls : Verify(c)

BillingUseAny == \E kind \in {"download", "aiQuery"} : BillingUse(kind, MaxBillingUse)

BillingClock == BillingTick(MaxBillingDays)

NextBilling == BillingStart \/ WebhookArrives \/ VerifyArrives \/ BillingUseAny \/ BillingClock

SpecBilling == Init /\ [][NextBilling]_vars

\* ---------------------------------------------------- calls of track-download
\* a free song, a paid song, a song that is not stored, an id that is not an
\* ObjectId and a body without songId
DownloadSongs ==
  {[id |-> "s1", validId |-> TRUE, stored |-> TRUE, collectionType |-> "free"],
   [id |-> "s2", validId |-> TRUE, stored |-> TRUE, collectionType |-> "paid"],
   [id |-> "s3", validId |-> TRUE, stored |-> FALSE, collectionType |-> "free"],
   [id |-> "zz", validId |-> FALSE, stored |-> FALSE, collectionType |-> "free"],
   [id |-> "", validId |-> FALSE, stored |-> FALSE, collectionType |-> "free"]}

LicenseTries ==
  {[error |-> "none", collisions |-> n] : n \in {0, 1, LicenseAttempts - 1, LicenseAttempts}}
  \cup {[error |-> "other", collisions |-> 0], [error |-> "noUniqueId", collisions |-> 0]}

DownloadCalls ==
  {[session |-> "user", song |-> s, title |-> "t", userFound |-> TRUE, license |-> l,
    save |-> v, rollback |-> r] :
     s \in DownloadSongs, l \in LicenseTries, v \in {"ok", "fails"}, r \in {"ok", "fails"}}
  \cup {[session |-> a, song |-> s, title |-> t, userFound |-> f,
         license |-> [error |-> "none", collisions |-> 0], save |-> "ok", rollback |-> "ok"] :
          a \in {"user", "anonymous"}, s \in DownloadSongs, t \in {"t", ""},
          f \in {TRUE, FALSE}}

\* n downloads of the first day
Downloaded(n) == [i \in 1..n |-> [songId |-> "s1", downloadedAt |-> DayStep]]

\* free and premium users below, one short of and at their monthly limit, a
\* premium user whose plan ends on day 30 and one without an end date
DownloadUsers ==
  {[NoDownloads.user EXCEPT !.subscription_type = "free", !.downloads = Downloaded(n)] :
     n \in {0, FreeDownloads - 1, FreeDownloads}}
  \cup {[NoDownloads.user EXCEPT !.subscription_type = t, !.is_premium = TRUE,
                                 !.subscription_end = e, !.downloads = Downloaded(n)] :
          t \in {"premium", "pro"}, e \in {0, 2 * DayStep},
          n \in {0, PremiumDownloads - 1, PremiumDownloads}}

DownloadStart == DownloadSetup(DownloadUsers)

DownloadArrives == \E c \in DownloadCalls : TrackDownload(c)

DownloadClock == DownloadTick(MaxDownloadDays)

NextDownloads == DownloadStart \/ DownloadArrives \/ DownloadClock

SpecDownloads == Init /\ [][NextDownloads]_vars

\* ------------------------------------------- step lists the answer can carry
\* the LLM names no steps, rising steps, falling steps, a step of zero, and a
\* negative step; the window is 60 to 90 bpm or open below
StepLists ==
  {JNotArray,
   JArray(<<JNumber(5), JNumber(15)>>),
   JArray(<<JNumber(3), JNumber(1)>>),
   JArray(<<JNumber(0)>>),
   JArray(<<JNumString(2), JOther, JNumber(4)>>),
   JArray(<<JNumber(-10)>>)}

WidenAnswers ==
  {[kind |-> "noKey", parsed |-> EmptyObject]}
  \cup {[kind |-> "json",
         parsed |-> [EmptyObject EXCEPT
                       !.vocals = "any",
                       !.tempo = [targetBpm |-> JNumber(80), min |-> lo, max |-> JNumber(90),
                                  expandSteps |-> steps]]] :
          lo \in {JNumber(60), JOther}, steps \in StepLists}

WidenArrives == RecommendArrives(FilterBodies, WidenAnswers, FilterUpstreams)

NextWiden ==
  WidenArrives \/ UnderstandStep \/ CollectStep \/ FilterStep \/ WidenStep \/ WidenDone

SpecWiden == Init /\ [][NextWiden]_vars

\* ================================================================ claims
Stored(d, u) == d[FindOne(d, u)]

HasProfile(d, u) == FindOne(d, u) # 0

\* C1: every entry stored in a profile's genres or subGenres list has a score
\* of at least one point, whatever accepted calls and decays produced it
C1_ScoresAtLeastOne ==
  \A i \in 1..Len(db) :
    /\ \A j \in 1..Len(db[i].genres) : db[i].genres[j].score >= Unit
    /\ \A j \in 1..Len(db[i].subGenres) : db[i].subGenres[j].score >= Unit

\* the first accepted call, an unfavorite, has created a genre and a sub-genre
\* entry, both on the floor
C1_Witness ==
  /\ resp.op = "taste" /\ resp.status = 200 /\ resp.kind = "unfavorite"
  /\ accepted["u1"] = 1
  /\ \E i \in 1..Len(db) :
       /\ Len(db[i].genres) > 0 /\ db[i].genres[1].score = Unit
       /\ Len(db[i].subGenres) > 0 /\ db[i].subGenres[1].score = Unit

\* C2: the stored totalInteractions of a user equals the number of that user's
\* accepted calls (a user without accepted calls has no profile), whatever tags
\* the calls carried, and an accepted call reports that number
C2_TotalEqualsAccepted ==
  /\ \A u \in Users :
       IF HasProfile(db, u) THEN Stored(db, u).totalInteractions = accepted[u]
       ELSE accepted[u] = 0
  /\ (resp.op = "taste" /\ resp.status = 200) => resp.count = accepted["u1"]

\* three calls were accepted, none of which carried a tag
C2_Witness ==
  /\ accepted["u1"] = 3
  /\ HasProfile(db, "u1")
  /\ Stored(db, "u1").genres = <<>> /\ Stored(db, "u1").subGenres = <<>>
  /\ Stored(db, "u1").totalInteractions = 3

\* C3: a call whose interactionType is not one of the seven kinds is answered
\* with 400 and leaves the stored profiles as they were
C3_UnknownKindRejected ==
  [][\A in \in TasteInputs :
       (/\ in.req.user # NoUser
        /\ in.req.songId
        /\ in.req.kind \notin ValidKinds
        /\ TasteStep(in.req, in.fail, MaxCalls, MaxScore))
       => (resp'.status = 400 /\ db' = db)]_vars

\* what an accepted call must have stored: counter, decay and tags together
StoredTogether(req, after) ==
  LET u == req.user
      old == IF HasProfile(db, u) THEN Stored(db, u) ELSE NewProfile(u, now)
      new == Stored(after, u)
  IN /\ HasProfile(after, u)
     /\ new.totalInteractions = old.totalInteractions + 1
     /\ monthsSinceDecay(new, now) < 1
     /\ \A k \in 1..Len(req.genres) : FindEntry(new.genres, req.genres[k]) # 0
     /\ \A k \in 1..Len(req.subGenres) : FindEntry(new.subGenres, req.subGenres[k]) # 0
     /\ monthsSinceDecay(old, now) >= 1 =>
          /\ new.lastDecayDate = now
          /\ \A j \in 1..Len(old.genres) :
               (\A k \in 1..Len(req.genres) : req.genres[k] # old.genres[j].id)
               => new.genres[j].score = DecayScore(old.genres[j].score)
          /\ \A j \in 1..Len(old.subGenres) :
               (\A k \in 1..Len(req.subGenres) : req.subGenres[k] # old.subGenres[j].id)
               => new.subGenres[j].score = DecayScore(old.subGenres[j].score)

\* C4: from every reachable state, a taste-interaction call either stores
\* decay, score updates and the counter increment together and answers 200, or
\* (a throwing tag entry, a failing find or save) stores nothing at all
C4_AllOrNothing ==
  \A in \in TasteInputs :
    LET r == TasteHandler(db, now, in.req, in.fail) IN
      IF r.resp.status = 200 THEN StoredTogether(in.req, r.db) ELSE r.db = db

\* a call has failed on a profile whose decay is still due
C4_Witness ==
  /\ resp.op = "taste" /\ resp.status = 500
  /\ \E i \in 1..Len(db) : monthsSinceDecay(db[i], now) >= 1 /\ Len(db[i].genres) > 0

\* C5: on every stored profile a second applyDecay in the same calendar month
\* changes neither a score nor lastDecayDate, and applyDecay in the month of
\* lastDecayDate changes nothing
C5_DecayIdempotentInMonth ==
  \A i \in 1..Len(db) :
    \A t1 \in 0..(MaxTime + TicksPerMonth) :
      /\ \A t2 \in t1..(MaxTime + TicksPerMonth) :
           Month(t1) = Month(t2)
           => applyDecay(applyDecay(db[i], t1), t2) = applyDecay(db[i], t1)
      /\ Month(t1) = Month(db[i].lastDecayDate) => applyDecay(db[i], t1) = db[i]

\* a tagged call ran applyDecay now, later in the month in which the profile
\* was decayed, and the decay date is still the earlier one
C5_Witness ==
  \E i \in 1..Len(db) :
    /\ Len(db[i].genres) > 0
    /\ db[i].lastUpdated = now
    /\ db[i].lastDecayDate < now
    /\ Month(db[i].lastDecayDate) = Month(now)
    /\ Month(now) >= 1

\* k is floor(s * 0.95) for a score of s half points
IsFloorOfDecay(k, s) ==
  /\ k * DecayDen * Unit <= s * DecayNum
  /\ s * DecayNum < (k + 1) * DecayDen * Unit

\* new is max(1, floor(old * 0.95)), both in half points
IsDecayOf(new, old) ==
  \E k \in 0..old :
    /\ IsFloorOfDecay(k, old)
    /\ new = IF k < 1 THEN Unit ELSE k * Unit

\* C6: every decay that is applied (lastDecayDate moves to a later month) maps
\* each score s to max(1, floor(s * 0.95)): 100 becomes 95 and 95 becomes 90
C6_DecayFloorsEachTime ==
  [][\A i \in 1..Len(db) :
       (Len(db') = Len(db) /\ Month(db'[i].lastDecayDate) > Month(db[i].lastDecayDate))
       => /\ \A j \in 1..Len(db[i].genres) :
               IsDecayOf(db'[i].genres[j].score, db[i].genres[j].score)
          /\ \A j \in 1..Len(db[i].subGenres) :
               LET old == db[i].subGenres[j].score
                   new == db'[i].subGenres[j].score
               IN /\ IsDecayOf(new, old)
                  /\ old = 100 * Unit => new = 95 * Unit
                  /\ old = 95 * Unit => new = 90 * Unit]_vars

\* the sub-genre played a hundred times stands at 90 after two decays
C6_Witness ==
  \E i \in 1..Len(db) :
    /\ db[i].totalInteractions = 100
    /\ Len(db[i].subGenres) = 1
    /\ db[i].subGenres[1].score = 90 * Unit
    /\ Month(db[i].lastDecayDate) = 2

\* every returned entry carries the decayed score of the stored entry of its id
TopIsDecayed(top, list) ==
  \A a \in 1..Len(top) :
    \E j \in 1..Len(list) :
      list[j].id = top[a].id /\ top[a].score = DecayScore(list[j].score)

\* C7: when /recommendations returns top preferences for a profile whose decay
\* is due, the decayed profile is stored and the returned scores are the
\* decayed ones; when /taste-interaction updates such a profile, the delta is
\* added to the decayed score
C7_DecayBeforeReadAndUpdate ==
  [][/\ \A fail \in {"none", "save"} :
          (/\ RecsStep("u1", fail)
           /\ resp'.body = "recs"
           /\ monthsSinceDecay(Stored(db, "u1"), now) >= 1)
          => /\ Stored(db', "u1").lastDecayDate = now
             /\ Stored(db', "u1").genres = DecayList(Stored(db, "u1").genres)
             /\ Stored(db', "u1").subGenres = DecayList(Stored(db, "u1").subGenres)
             /\ Len(resp'.topGenres) > 0
             /\ TopIsDecayed(resp'.topGenres, Stored(db, "u1").genres)
             /\ TopIsDecayed(resp'.topSubGenres, Stored(db, "u1").subGenres)
     /\ \A in \in TopInputs :
          (/\ TasteStep(in.req, in.fail, MaxTopCalls, MaxScore)
           /\ resp'.status = 200
           /\ HasProfile(db, "u1")
           /\ monthsSinceDecay(Stored(db, "u1"), now) >= 1)
          => LET old == Stored(db, "u1")
                 new == Stored(db', "u1")
                 w == ScoreWeights[in.req.kind]
             IN /\ new.lastDecayDate = now
                /\ \A j \in 1..Len(old.genres) :
                     new.genres[j].score =
                       IF \E k \in 1..Len(in.req.genres) : in.req.genres[k] = old.genres[j].id
                         THEN MaxOne(DecayScore(old.genres[j].score) + w.genre)
                         ELSE DecayScore(old.genres[j].score)
                /\ \A j \in 1..Len(old.subGenres) :
                     new.subGenres[j].score =
                       IF \E k \in 1..Len(in.req.subGenres) :
                            in.req.subGenres[k] = old.subGenres[j].id
                         THEN MaxOne(DecayScore(old.subGenres[j].score) + w.subgenre)
                         ELSE DecayScore(old.subGenres[j].score)]_vars

\* /recommendations has just decayed the profile (the last tagged call is
\* older than the decay) and returned its top preferences
C7_Witness ==
  /\ resp.op = "recs" /\ resp.body = "recs"
  /\ Len(resp.topGenres) > 0
  /\ HasProfile(db, "u1")
  /\ Stored(db, "u1").lastDecayDate = now
  /\ Stored(db, "u1").lastUpdated < now
  /\ Month(now) >= 1

\* position of an id in the order of first insertion
Pos(seq, id) == CHOOSE i \in 1..Len(seq) : seq[i] = id

\* at most limit entries of the list, by descending score, first-inserted
\* first among equal scores
IsTopOf(top, list, limit, order) ==
  /\ Len(top) <= limit
  /\ Len(top) = (IF limit < Len(list) THEN limit ELSE Len(list))
  /\ \A a \in 1..Len(top) : \E j \in 1..Len(list) : list[j] = top[a]
  /\ \A a, b \in 1..Len(top) :
       a < b => \/ top[a].score > top[b].score
                \/ /\ top[a].score = top[b].score
                   /\ Pos(order, top[a].id) < Pos(order, top[b].id)

C9_SweepToleratesFailure ==
  [][\A failAt \in 1..(Len(db) - 1) :
       (/\ SweepStep(failAt)
        /\ \E i \in (failAt + 1)..Len(db) : monthsSinceDecay(db[i], now) >= 1)
       => /\ resp'.body = "sweepOk"
          /\ \A i \in 1..Len(db) : i # failAt => monthsSinceDecay(db'[i], now) < 1]_vars

\* the user has no profile, or a profile without any score
NoScores(d, u) ==
  ~HasProfile(d, u) \/ (Stored(d, u).genres = <<>> /\ Stored(d, u).subGenres = <<>>)

BothDone == \A c \in CallIds : calls[c].pc = "done"

\* totalInteractions before the two calls: the smaller of the counters loaded
RaceBase ==
  IF calls["A"].loaded.totalInteractions <= calls["B"].loaded.totalInteractions
    THEN calls["A"].loaded.totalInteractions
    ELSE calls["B"].loaded.totalInteractions

\* the stored profile of the user carries every tag of call c
TagsStored(c) ==
  LET req == RaceRequest(c) IN
    /\ HasProfile(db, req.user)
    /\ \A k \in 1..Len(req.genres) : FindEntry(Stored(db, req.user).genres, req.genres[k]) # 0
    /\ \A k \in 1..Len(req.subGenres) :
         FindEntry(Stored(db, req.user).subGenres, req.subGenres[k]) # 0

WrongShape(llm) == llm.kind = "json" /\ llm.parsed = EmptyObject

\* the QuerySpec of the heuristic extractor after alias hints and the toggle
HeuristicQuery(body) ==
  LET hinted == applyAliasHints(Taxonomy,
                                deriveHeuristicSpec(Taxonomy, body.queryText,
                                                    VocalsFlag(body.vocals)),
                                body.queryText)
  IN [hinted EXCEPT !.vocals = IF body.vocals \in {"on", "off"} THEN body.vocals ELSE @]

\* C12: whenever the LLM step fails (SDK missing, no API key, call rejected,
\* content not JSON, JSON of the wrong shape) the route goes on with the
\* QuerySpec of the heuristic extractor
C12_LlmFailureFallsToHeuristic ==
  (stage = "understood" /\ (request.llm.kind \in LlmFailures \/ WrongShape(request.llm)))
  => query = HeuristicQuery(request.body)

\* the QuerySpec that llmExtractSpec returns for the request
Extracted == llmExtractSpec(Taxonomy, request.body.queryText, request.llm)

AllowedNames(list) == Range(Names(list))

\* C13: whatever JSON the LLM returned, the QuerySpec of llmExtractSpec names
\* only genres, sub-genres, moods and instruments of the taxonomy (genre is
\* null otherwise), with at most 5 sub-genres, 5 moods and 5 instruments; the
\* route carries these lists on unless an alias hint applies
C13_OnlyAllowedNames ==
  (stage \in {"received", "understood"} /\ request.llm.kind = "json") =>
    /\ Extracted.genre \in AllowedNames(Taxonomy.genres) \cup {Null}
    /\ Range(Extracted.subGenres) \subseteq AllowedNames(Taxonomy.subGenres)
    /\ Range(Extracted.moods) \subseteq AllowedNames(Taxonomy.moods)
    /\ Range(Extracted.instruments) \subseteq AllowedNames(Taxonomy.instruments)
    /\ Len(Extracted.subGenres) <= ListCap
    /\ Len(Extracted.moods) <= ListCap
    /\ Len(Extracted.instruments) <= ListCap
    /\ (stage = "understood" /\ ~Test(NatureWords, request.body.queryText))
       => /\ query.genre = Extracted.genre
          /\ query.subGenres = Extracted.subGenres
          /\ query.moods = Extracted.moods
          /\ query.instruments = Extracted.instruments

\* the answer named an unknown genre, unknown names among known ones and more
\* than five known instruments; the QuerySpec holds the known ones, capped
C13_Witness ==
  /\ stage = "understood"
  /\ request.llm.kind = "json"
  /\ request.llm.parsed.genre = "Jazzcore"
  /\ request.llm.parsed.subGenres = JArray(<<"Drone", "Jazzcore", "Meditation", NotAString>>)
  /\ Len(request.llm.parsed.instruments.items) > ListCap
  /\ query.genre = Null
  /\ query.subGenres = <<"Drone", "Meditation">>
  /\ query.instruments = <<"Piano", "Guitar", "Piano", "Guitar", "Piano">>

\* C14: for every combination of finite or missing targetBpm, min and max in
\* the LLM answer, the tempo of the QuerySpec has min <= max when both are
\* present and min <= target <= max for the bounds present; a finite bound or
\* target is never dropped, and an inverted pair comes out exchanged
C14_TempoOrdered ==
  (stage = "understood" /\ request.llm.kind = "json") =>
    LET given == request.llm.parsed.tempo
        lo == FiniteOrNull(given.min)
        hi == FiniteOrNull(given.max)
        tgt == FiniteOrNull(given.targetBpm)
        out == query.tempo
    IN /\ (out.min # NoNum /\ out.max # NoNum) => out.min <= out.max
       /\ (out.targetBpm # NoNum /\ out.min # NoNum) => out.min <= out.targetBpm
       /\ (out.targetBpm # NoNum /\ out.max # NoNum) => out.targetBpm <= out.max
       /\ (lo # NoNum /\ hi # NoNum)
          => (out.min = Smaller(lo, hi) /\ out.max = Larger(lo, hi))
       /\ (lo = NoNum \/ hi = NoNum) => (out.min = lo /\ out.max = hi)
       /\ (out.targetBpm = NoNum) <=> (tgt = NoNum)

\* the answer gave min 120, max 60 and target 90: the bounds were exchanged;
\* its steps were [3, "7", {}, null], which became [3, 7, 0]
C14_Witness ==
  /\ stage = "understood"
  /\ request.llm.kind = "json"
  /\ request.llm.parsed.tempo.min = JNumber(120)
  /\ request.llm.parsed.tempo.max = JNumber(60)
  /\ request.llm.parsed.tempo.targetBpm = JNumber(90)
  /\ query.tempo.min = 60 /\ query.tempo.max = 120 /\ query.tempo.targetBpm = 90
  /\ query.tempo.expandSteps = <<3, 7, 0>>

\* C15: without a vocals toggle the heuristic extractor gives vocals = "off"
\* to a brief that contains "no vocals" or "instrumental"; for "calm ambient
\* music for meditation, no vocals" the tempo target lies in [60, 90]
C15_NoVocalsMeansOff ==
  (/\ stage = "understood"
   /\ request.llm.kind \in LlmFailures
   /\ request.body.vocals = ""
   /\ Test({"no vocals", "instrumental"}, request.body.queryText))
  => /\ query.vocals = "off"
     /\ request.body.queryText = "calm ambient music for meditation, no vocals"
        => (query.tempo # NoTempo /\ query.tempo.targetBpm >= 60
            /\ query.tempo.targetBpm <= 90)

\* the facet requests the route issued for its spec
Issued == IssuedCalls(ResolveAll(Taxonomy, query))

Ids(songs) == {songs[i].id : i \in 1..Len(songs)}

\* C16: when one facet request fails and another succeeds, the songs of the
\* requests that succeeded are in the pool that goes on to be filtered
C16_FacetFailureKeepsOthers ==
  (/\ stage \in {"collected", "collectedDirect"}
   /\ \E i \in 1..Len(Issued) : ~request.upstream.facets[Issued[i]].ok
   /\ \E i \in 1..Len(Issued) : request.upstream.facets[Issued[i]].ok)
  => \A i \in 1..Len(Issued) :
       request.upstream.facets[Issued[i]].ok
       => Ids(request.upstream.facets[Issued[i]].songs) \subseteq Ids(pool)

RECURSIVE Concat(_, _)
\* the answers of the issued requests one after the other
Concat(issued, facets) ==
  IF issued = <<>> THEN <<>>
  ELSE facets[Head(issued)].songs \o Concat(Tail(issued), facets)

\* everything that was merged, in the order of merging: the facet answers and,
\* when they hold fewer than 40 identities, the trending list
MergedSources ==
  LET fromFacets == Concat(Issued, request.upstream.facets)
  IN IF Cardinality(Ids(fromFacets)) < TrendingBelow
       THEN fromFacets \o getTrending(request.upstream) ELSE fromFacets

\* C17: the pool collectCandidates returned holds every merged identity once,
\* and for each identity the object that was merged last
C17_PoolDeduplicated ==
  stage = "collected" =>
    /\ \A i, j \in 1..Len(pool) : pool[i].id = pool[j].id => i = j
    /\ Ids(pool) = Ids(MergedSources)
    /\ \A i \in 1..Len(pool) :
         \E a \in 1..Len(MergedSources) :
           /\ MergedSources[a] = pool[i]
           /\ \A b \in (a + 1)..Len(MergedSources) : MergedSources[b].id # pool[i].id

\* four facet answers and the trending list overlapped: song 1 is the genre
\* answer's, song 3 the mood answer's, song 5 the trending list's
C17_Witness ==
  /\ stage = "collected"
  /\ Len(Issued) = 4
  /\ Len(MergedSources) = 11
  /\ Len(pool) = 6
  /\ pool[1] = PlainSong(1, "genre")
  /\ pool[3] = PlainSong(3, "mood")
  /\ pool[5] = PlainSong(5, "trending")

\* the spec the last call of filterByVocalsAndTempo was given
FilterSpecUsed ==
  IF retries = 0 THEN query ELSE widenTempo(query, StepsOf(query)[retries])

\* what the claim and the tempo window say of one candidate
VocalsKeep(song, qs) ==
  CASE song.hasVocals = "true" -> qs.vocals # "off"
    [] song.hasVocals = "false" -> qs.vocals # "on"
    [] OTHER -> TRUE

TempoKeep(song, qs) ==
  \/ qs.tempo = NoTempo
  \/ song.bpm = NoNum
  \/ /\ qs.tempo.min # NoNum => song.bpm >= qs.tempo.min
     /\ qs.tempo.max # NoNum => song.bpm <= qs.tempo.max

PlaceIn(songs, song) == CHOOSE i \in 1..Len(songs) : songs[i] = song

DensityTarget == Larger(4 * Limit(request.body.topK), 40)

\* C19: the widening loop re-filters at most once per step of the step list
\* ([5,10,20] by default), each time only while the filtered pool holds fewer
\* than max(4*topK, 40) candidates; it is left when that target is met or the
\* steps are used up, and the collected pool and the spec stay as they were.
C19_WideningBounded ==
  [][/\ stage' \in {"filtering", "filtered"} => retries' <= Len(StepsOf(query'))
     /\ stage = "filtering" =>
          /\ pool' = pool
          /\ query' = query
          /\ filtered' # filtered => retries' = retries + 1
          /\ retries' # retries =>
               /\ retries' = retries + 1
               /\ retries < Len(StepsOf(query))
               /\ Len(filtered) < DensityTarget
               /\ stage' = "filtering"
          /\ stage' = "filtered" =>
               /\ Len(filtered) >= DensityTarget \/ retries = Len(StepsOf(query))
               /\ filtered' = filtered
               /\ retries' = retries
          /\ (Len(filtered) >= DensityTarget \/ retries = Len(StepsOf(query)))
               => stage' = "filtered"]_vars

\* the first default step met the target of 40 and the steps 10 and 20 were
\* left unused
C19_Witness ==
  /\ stage = "filtered"
  /\ StepsOf(query) = DefaultSteps
  /\ retries = 1
  /\ DensityTarget = 40
  /\ Len(filtered) >= 40
  /\ Len(filtered) < Len(pool)

\* the places in the sorted pool of the songs of sub-genre S1
GroupPlaces == {i \in 1..Len(request.sorted) : GroupKey(request.sorted[i]) = "S1"}

\* the scenario of the claim: 10 candidates of one sub-genre, at least 6 of
\* other groups, maxPerSub = 4 and topK = 10
TenOfOneGroup ==
  /\ request.maxPerSub = 4
  /\ request.topK = 10
  /\ Cardinality(GroupPlaces) = 10
  /\ Len(request.sorted) - 10 >= 6

\* sub-sequence of the pool, at most topK items, no group above maxPerSub
DiversePick ==
  /\ Len(picked) <= request.topK
  /\ \A j \in 1..Len(picked) : \E i \in 1..Len(request.sorted) : request.sorted[i] = picked[j]
  /\ \A j, k \in 1..Len(picked) :
       j < k => PlaceIn(request.sorted, picked[j]) < PlaceIn(request.sorted, picked[k])
  /\ \A j \in 1..Len(picked) : CountOf(picked, GroupKey(picked[j])) <= request.maxPerSub

\* C20 as stated: the pick is diverse, and in the scenario exactly 4 of the
\* group are selected.
C20_ExactlyFourOfGroup ==
  stage = "picked" =>
    /\ DiversePick
    /\ TenOfOneGroup => CountOf(picked, "S1") = 4

\* the songs of other groups that rank ahead of the group's fourth candidate
OthersAheadOfFourth ==
  {i \in 1..Len(request.sorted) :
     /\ i \notin GroupPlaces
     /\ Cardinality({g \in GroupPlaces : g < i}) < 4}

\* C20: the pick is a sub-sequence of the sorted pool with at most topK items
\* and at most maxPerSub of any primary sub-genre group; in the scenario at
\* most 4 of the group are selected, and exactly 4 when at most 6 candidates of
\* other groups rank ahead of the group's fourth candidate.
C20_AtMostFourOfGroup ==
  stage = "picked" =>
    /\ DiversePick
    /\ TenOfOneGroup =>
         /\ CountOf(picked, "S1") <= 4
         /\ Cardinality(OthersAheadOfFourth) <= 6 => CountOf(picked, "S1") = 4

\* five songs of five other groups rank first, three more last: five others,
\* four of the group and one of the last three are picked
C20_Witness ==
  /\ stage = "picked"
  /\ TenOfOneGroup
  /\ Cardinality(OthersAheadOfFourth) = 5
  /\ Len(request.sorted) = 18
  /\ CountOf(picked, "S1") = 4
  /\ [j \in 1..Len(picked) |-> picked[j].id] = <<1, 2, 3, 4, 5, 6, 7, 8, 9, 16>>

\* the mood tags of the scored candidate that are in the requested set
MoodMatches == Cardinality(Range(request.song.moods) \cap request.idSets.moodIdSet)

\* the candidate scored second has one more mood tag, a requested one
ExtraTagMatches ==
  /\ request.extra \in request.idSets.moodIdSet
  /\ request.extra \notin Range(request.song.moods)

UsageEvents == ai.user.aiQueries

\* C22: POST /recommend stores exactly one usage event when it answers 200
\* and the store accepts it, and none when it answers 400, 401 or 429 (or
\* 500); when the store rejects the event the answer is still the 200 with the
\* ranked songs; no other step of the request touches the usage events.
C22_OneUsageEventPerSuccess ==
  [][/\ (stage = "arrived" /\ stage' = "rejected")
          => /\ reply'.status \in {400, 401, 429, 500}
             /\ ai' = ai
     /\ (stage = "ranked" /\ stage' = "replied")
          => /\ reply'.status = 200
             /\ reply'.results = RankSongs(filtered, query, resolved, Limit(request.body.topK))
             /\ request.caller.recording = "ok"
                  => /\ Len(UsageEvents') = Len(UsageEvents) + 1
                     /\ SubSeq(UsageEvents', 1, Len(UsageEvents)) = UsageEvents
                     /\ UsageEvents'[Len(UsageEvents')].at = now
             /\ request.caller.recording = "fails" => ai' = ai
     /\ (stage \notin {"idle", "ranked"}) => ai' = ai
     /\ reply'.status = 200 => stage' = "replied"]_vars

\* the store rejected the usage event of a user with four events; the answer
\* is 200 with two ranked songs and the user still has four events
C22_Witness ==
  /\ stage = "replied"
  /\ request.caller.recording = "fails"
  /\ reply.status = 200
  /\ Len(reply.results) = 2
  /\ UsageEvents = History(4)

\* the facet requests the route issued for the spec, all of which failed
IssuedFacets == IssuedCalls(ResolveAll(Taxonomy, query))

AllFacetsFailed ==
  /\ Len(IssuedFacets) > 0
  /\ \A i \in 1..Len(IssuedFacets) : ~request.upstream.facets[IssuedFacets[i]].ok

\* what the direct query asks of a song: the vocals, the tempo window, the mode
DirectWanted(song) ==
  /\ query.vocals = "off" => song.hasVocals = "false"
  /\ query.vocals = "on" => song.hasVocals = "true"
  /\ (query.tempo # NoTempo /\ query.tempo.min # NoNum)
       => (song.bpm # NoNum /\ song.bpm >= query.tempo.min)
  /\ (query.tempo # NoTempo /\ query.tempo.max # NoNum)
       => (song.bpm # NoNum /\ song.bpm <= query.tempo.max)
  /\ (query.key # NoKeyPref /\ query.key.mode # Null) => Contains(song.key, query.key.mode)

AfterCollect == {"collected", "collectedDirect", "filtering", "filtered", "ranked", "replied"}

\* C23: when every facet request fails the candidates are the songs of the
\* direct local query (none when that query fails too), and the request is
\* answered 200 with results taken from them.
C23_AllFacetsFailFallsBack ==
  (stage \in AfterCollect /\ AllFacetsFailed) =>
    /\ stage = "collectedDirect" \/ stage \notin {"collected", "collectedDirect"}
    /\ pool = IF request.upstream.local.ok
                THEN SelectSeq(request.upstream.local.songs, DirectWanted) ELSE <<>>
    /\ reply.status = IF stage = "replied" THEN 200 ELSE 0
    /\ stage = "replied" =>
         /\ reply.totalCandidates = Len(pool)
         /\ \A i \in 1..Len(reply.results) : \E j \in 1..Len(pool) : pool[j] = reply.results[i]

\* four facet requests failed; the direct query gave the two instrumental
\* songs in the calm band, and both are in the 200 answer
C23_Witness ==
  /\ stage = "replied"
  /\ AllFacetsFailed
  /\ Len(IssuedFacets) = 4
  /\ query.vocals = "off"
  /\ [j \in 1..Len(pool) |-> pool[j].id] = <<11, 16>>
  /\ reply.status = 200
  /\ Len(reply.results) = 2

\* the cached lists, lookup maps and version
CachedContent(t) == <<t.cache.lists, t.cache.maps, t.cache.v>>

\* C24: the cached lists, maps and version are replaced only when the cache is
\* empty or the upstream version differs from the cached one; a call that
\* finds the non-empty cache younger than the TTL makes no upstream request;
\* a failed fetch and an unchanged version leave lists, maps and version as
\* they were; under any interleaving of two concurrent refreshes.
C24_RefreshOnlyWhenStale ==
  [][/\ CachedContent(taxonomy') # CachedContent(taxonomy)
          => (CacheIsEmpty(taxonomy.cache) \/ taxonomy.admin # taxonomy.cache.v)
     /\ \A r \in {"A", "B"} :
          /\ (RefreshStart(r) /\ ~CacheIsEmpty(taxonomy.cache) /\ taxonomy.cache.v # 0
              /\ taxonomy.clock - taxonomy.cache.lastLoadedAt < TTL_MS)
               => (taxonomy'.runs[r].pc = "done" /\ taxonomy'.runs[r].requests = 0)
          /\ (RefreshVersion(r, FALSE) \/ RefreshLists(r, FALSE))
               => CachedContent(taxonomy') = CachedContent(taxonomy)
          /\ (RefreshVersion(r, TRUE) /\ taxonomy.admin = taxonomy.cache.v
              /\ ~CacheIsEmpty(taxonomy.cache))
               => CachedContent(taxonomy') = CachedContent(taxonomy)]_vars

\* the usage events of the user in month m
EventsIn(m) == Cardinality({i \in 1..Len(UsageEvents) : Month(UsageEvents[i].at) = m})

\* C25: in no month does the user have more usage events than the AI limit of
\* the plan, however the user's requests interleave; a request that counted
\* usedThisMonth >= limit was answered 429.
C25_QuotaNeverExceeded ==
  /\ \A m \in 0..Month(MaxTime) : EventsIn(m) <= PlanAi(normalizePlan(ai.user))
  /\ \A r \in {"A", "B"} :
       (ai.reqs[r].pc # "start" /\ ai.reqs[r].used >= ai.reqs[r].limit)
         => ai.reqs[r].status = 429

\* the saved activations of a payment
ActivationsOf(id) == {i \in 1..Len(billing.activations) : billing.activations[i].paymentId = id}

\* C26: a captured payment activates the plan at most once over all webhook
\* deliveries and POST /billing/verify calls that carry its paymentId: the
\* subscription end moves 30 days at most once and the usage of the month is
\* dropped at most once.
C26_PaymentActivatesOnce ==
  \A p \in Payments : Cardinality(ActivationsOf(p.id)) <= 1

\* the user of a payment's order exists
Resolvable(p) == p.id # "" /\ p.orderId # "" /\ p.userId = "u1"

\* C27: every payment recorded in payment_events whose order names an existing
\* user has had its plan activated.
C27_ProcessedMeansActivated ==
  \A p \in Payments :
    (p.id \in billing.events /\ Resolvable(p)) => ActivationsOf(p.id) # {}

\* C28: a download is counted only with a license created for it and a
\* license stays stored only with its download recorded, and no license of a
\* paid track is issued on the free plan.
C28_LicenseWithDownload ==
  /\ Len(downloads.licenses) = Len(downloads.user.downloads)
  /\ \A i \in 1..Len(downloads.licenses) :
       /\ downloads.licenses[i].songId = downloads.user.downloads[i].songId
       /\ downloads.licenses[i].issuedAt = downloads.user.downloads[i].downloadedAt
       /\ downloads.licenses[i].collectionType = "paid"
            => downloads.licenses[i].planAtIssue = "premium"

\* C29: getTopGenres and getTopSubGenres leave the profile they are called on
\* as it was: lists in their stored order, counters and dates untouched.
C29_GetTopReadOnly ==
  \A i \in 1..Len(db) : \A limit \in 0..MaxLimit :
    /\ getTopGenres(db[i], limit).doc = db[i]
    /\ getTopSubGenres(db[i], limit).doc = db[i]

\* every song of the first list is in the second
Within(songs, others) == \A i \in 1..Len(songs) : \E j \in 1..Len(others) : others[j] = songs[i]

\* C30: a retry widens a copy of the spec, which keeps its window; from one
\* retry to the next the filtered pool never shrinks, and the filtered pool
\* always holds the songs the original window keeps.
C30_WideningOnlyRelaxes ==
  [][stage = "filtering" =>
       /\ query' = query
       /\ stage' = "filtering" => Within(filtered, filtered')
       /\ Within(FilterSongs(pool, query), filtered')]_vars

====
